---------------------------- MODULE Spec2Model ----------------------------
(***************************************************************************)
(* A model of the RA crawler: meeting-key discovery (api/parser.py,        *)
(* api/ra_discover.py), the program harvester (api/program_parser.py,      *)
(* api/ra_harvest.py), the race_program writer (api/crawler.py), the       *)
(* provider-id backfill (api/backfill_meeting_ids.py) and the daily job    *)
(* (api/daily_job.py, api/crawl_calendar.py).                              *)
(*                                                                         *)
(* Each component is a state machine of its own with its own variables;    *)
(* a specification of one component keeps the others' variables idle.      *)
(* Dates are day numbers relative to today (today = 0).                    *)
(***************************************************************************)
EXTENDS Integers, Sequences, FiniteSets, TLC

VARIABLES
    \* ---- discovery, api/parser.py ----
    caller, days, include_past, dbTracks,
    pc, li, html, prev_sig, advance, hop, ci, keys, stop,
    seeds, bf, pd, ptodo, probed, found, presp, out,
    \* ---- the race_program writer, api/crawler.py ----
    table, lastBatch, lastResult, prevTable, repeat,
    \* ---- the provider-id backfill, api/backfill_meeting_ids.py ----
    bpc, dry_run, txn, bcands, bdates, bres, written, failed, processed, bpay,
    \* ---- the harvester, api/ra_harvest.py and api/program_parser.py ----
    upstream, hclock, hcalls, hres, hblocks, hfirst, hforces, page0, rows0, editAt,
    \* ---- the listing walker, api/ra_discover.py ----
    lpc, lidx, cursor, stagnant, lhop, lci, total, expired, nfetch, seen,
    keys0, rtotal,
    \* ---- a caller of canonical_track_name, api/backfill_meeting_ids.py ----
    craw, cname, cprev, ccalls,
    \* ---- the daily job, api/daily_job.py and api/crawl_calendar.py ----
    jpc, jforce, jhasmid, jtodo, jsaved, jupdated, jfail, jret, jsteps

dvars == <<caller, days, include_past, dbTracks, pc, li, html, prev_sig, advance,
           hop, ci, keys, stop, seeds, bf, pd, ptodo, probed, found, presp, out>>

uvars == <<table, lastBatch, lastResult, prevTable, repeat>>

bvars == <<bpc, dry_run, txn, bcands, bdates, bres, written, failed, processed, bpay>>

hvars == <<upstream, hclock, hcalls, hres, hblocks, hfirst, hforces, page0, rows0, editAt>>

lvars == <<lpc, lidx, cursor, stagnant, lhop, lci, total, expired, nfetch, seen,
           keys0, rtotal>>

cvars == <<craw, cname, cprev, ccalls>>

jvars == <<jpc, jforce, jhasmid, jtodo, jsaved, jupdated, jfail, jret, jsteps>>

\* every variable outside discovery
others == <<uvars, bvars, hvars, lvars, cvars, jvars, jvars>>

vars == <<dvars, others>>

(***************************************************************************)
(* Bounds of the model.                                                    *)
(***************************************************************************)
MaxDays == 5        \* the largest `days` argument tried
PastSpan == 4       \* upstream pages carry keys as old as today - PastSpan
MaxCands == 2       \* most candidate "next" controls on one listing page
MaxBatch == 2       \* most rows in one upsert_program_rows call
MaxPayload == 2     \* most meetings in one provider payload
MaxPage == 5        \* most tokens of one program page
MaxCalls == 3       \* most harvests of one key in a run
HashMod == 5        \* listing-page signatures are kept modulo HashMod

(***************************************************************************)
(* Program constants.                                                      *)
(***************************************************************************)
GapDays == 3        \* parser.py:402  hi - timedelta(days=3)
HopBase == 8        \* parser.py:424  (days // 7) + 8
HopWeek == 7        \* parser.py:424

\* parser.py:17, reduced to two of the eight state codes
STATES == <<"VIC", "NSW">>
StateSet == {STATES[i] : i \in 1..Len(STATES)}
\* HOME_URL followed by one STATE_URL per state (_walk_all_sources)
Listings == <<"HOME">> \o STATES

\* names that contain one of TRIAL_WORDS (parser.py:30)
TrialTracks == {"Cranbourne Trial"}
Tracks == {"Flemington"} \cup TrialTracks

DaysSet == {2, MaxDays}
PastSet == {0, 1}
DateU == (0 - PastSpan)..(MaxDays + 1)
DateMin == (0 - PastSpan) - 1      \* date.min: before every date of a key

Lo(ip) == 0 - ip                   \* _today() - timedelta(days=include_past)
Hi(dy) == 0 + dy                   \* _today() + timedelta(days=days)

MaxHops(dy) == (dy \div HopWeek) + HopBase

(***************************************************************************)
(* Keys.  A key string "YYYYMonDD,STATE,Track" is a record; dok says       *)
(* whether its date segment parses (_key_to_date returns a date).          *)
(***************************************************************************)
Key(d, st, trk) == [dok |-> TRUE, d |-> d, st |-> st, trk |-> trk]

RawKeyU ==
    {Key(d, "VIC", "Flemington") : d \in DateU}
    \cup {[dok |-> FALSE, d |-> 0, st |-> "VIC", trk |-> "Flemington"],
          Key(1, "VIC", "Cranbourne Trial"),
          Key(1, "XX", "Flemington")}

IsTrialish(s) == s \in TrialTracks
IsTrialishKey(k) == IsTrialish(k.trk)
LooksMeetingKey(k) == k.st \in StateSet
WithinWindow(k, lo, hi) == k.dok /\ lo <= k.d /\ k.d <= hi

SetMax(S) == CHOOSE m \in S : \A x \in S : x <= m
KeyDates(K) == {k.d : k \in {x \in K : x.dok}}
HasMaxKeyDate(K) == KeyDates(K) # {}
MaxKeyDate(K) == SetMax(KeyDates(K))

(***************************************************************************)
(* Listing pages.  A page is what the walker reads off its text: the key   *)
(* strings in it, the number of candidate "next" controls and whether it   *)
(* carries hidden form fields.  Two pages are byte-identical iff equal.    *)
(***************************************************************************)
PageKeySets == {{}} \cup {{k} : k \in RawKeyU}
                \cup {{Key(d, "VIC", "Flemington"), Key(d + 1, "VIC", "Flemington")} :
                        d \in {0, 2}}
\* (hidden fields are told apart only on pages with a submit control to use them)
PageU == {p \in [raw : PageKeySets, cands : 0..MaxCands, hidden : BOOLEAN] :
            p.hidden => p.cands >= 2}
NoPage == [raw |-> {}, cands |-> 0, hidden |-> FALSE]

\* The pages the upstream site serves.  A lone call of _walk_calendar is checked
\* against every page; a whole discovery pass against the pages of a short
\* calendar, which keeps the union over the listings small.
ShortDates == {0 - 2, 0, 2, MaxDays + 1}
ShortPages == {p \in PageU : \A k \in p.raw : k.dok /\ k.d \in ShortDates}
PagesOf(who) == IF who = "walk" THEN PageU ELSE ShortPages

ExtractKeysAny(p) == {k \in p.raw : LooksMeetingKey(k) /\ ~IsTrialishKey(k)}

NoSig == 0 - 1
PageCode(p) == Cardinality(p.raw) + p.cands + (IF p.hidden THEN 1 ELSE 0)
               + (IF KeyDates(p.raw) = {} THEN 0 ELSE MaxKeyDate(p.raw) + PastSpan)
Hash(p) == PageCode(p) % HashMod

NoAction == [kind |-> "none", id |-> 0]
CandidateActions(p) ==
    [i \in 1..p.cands |-> [kind |-> IF i % 2 = 1 THEN "href" ELSE "submit", id |-> i]]

\* What one HTTP request can come to.
FetchOutcomes == {[kind |-> "ok", page |-> p] : p \in PagesOf(caller)}
                 \cup {[kind |-> "http_error", page |-> NoPage],
                       [kind |-> "exception", page |-> NoPage]}


(***************************************************************************)
(* _apply_action: the results one candidate action can have on page p.     *)
(* A submit/postback needs the page's hidden fields and is not sent when   *)
(* there are none; a response that is not ok gives None; requests raises   *)
(* on a timeout or a connection error and nothing here catches it.         *)
(***************************************************************************)
ApplyAction(p, a) ==
    IF a.kind = "submit" /\ ~p.hidden
    THEN {[kind |-> "none", page |-> NoPage]}
    ELSE {[kind |-> IF r.kind = "ok" THEN "page"
                    ELSE IF r.kind = "http_error" THEN "none" ELSE "raise",
           page |-> r.page] : r \in FetchOutcomes}

\* old = _max_key_date(page_keys) or date.min ; new = _max_key_date(...) or old
OldMx(pageKeys) == IF HasMaxKeyDate(pageKeys) THEN MaxKeyDate(pageKeys) ELSE DateMin
NewMx(newKeys, old) == IF HasMaxKeyDate(newKeys) THEN MaxKeyDate(newKeys) ELSE old
\* the same test with "new >= old" in place of "new > old"
AdvancesTo_NotStrict(cur, res) ==
    /\ res.kind = "page"
    /\ res.page # cur
    /\ NewMx(ExtractKeysAny(res.page), OldMx(ExtractKeysAny(cur)))
         >= OldMx(ExtractKeysAny(cur))

\* "if nh and nh != html: ... if new > old"
AdvancesTo(cur, res) ==
    /\ res.kind = "page"
    /\ res.page # cur
    /\ NewMx(ExtractKeysAny(res.page), OldMx(ExtractKeysAny(cur)))
         > OldMx(ExtractKeysAny(cur))

HopBudgetLeft_Unbounded(h, dy) == TRUE
\* "for hop in range(max_hops)"
HopBudgetLeft(h, dy) == h < MaxHops(dy)
\* "if sig == prev_sig: break"
Unchanged(sig, prev) == sig = prev
\* "if mx and mx >= hi: break"
ReachedWindowEnd(pageKeys, hi) == HasMaxKeyDate(pageKeys) /\ MaxKeyDate(pageKeys) >= hi
\* kept = {k for k in page_keys if _within_window(k, lo, hi) and not _is_trialish(k)}
Kept(pageKeys, lo, hi) == {k \in pageKeys : WithinWindow(k, lo, hi) /\ ~IsTrialishKey(k)}

\* _walk_calendar returns ks; _walk_all_sources adds it to its keys and goes on
\* to the next listing, or returns after the last one.
FinishWalk(ks, why) ==
    /\ seeds' = seeds \cup ks
    /\ keys' = ks
    /\ stop' = why
    /\ html' = NoPage /\ prev_sig' = NoSig /\ advance' = NoAction
    /\ hop' = 0 /\ ci' = 0
    /\ IF caller = "walk"
       THEN li' = li /\ pc' = "returned"
       ELSE IF li < Len(Listings)
       THEN li' = li + 1 /\ pc' = "walk"
       ELSE li' = li /\ pc' = "gap"
    /\ UNCHANGED <<others, caller, days, include_past, dbTracks, bf, pd, ptodo, probed, found, presp, out>>

\* An exception leaves _walk_calendar, _walk_all_sources and discover_meeting_keys.
Raise ==
    /\ pc' = "raised"
    /\ UNCHANGED <<others, caller, days, include_past, dbTracks, li, html, prev_sig, advance, hop, ci,
                   keys, stop, seeds, bf, pd, ptodo, probed, found, presp, out>>

\* r = s.get(start_url, timeout=25); if not r.ok: return keys
WalkStart ==
    /\ pc = "walk"
    /\ \E r \in FetchOutcomes :
         CASE r.kind = "exception" -> Raise
           [] r.kind = "http_error" -> FinishWalk({}, "first_fetch_failed")
           [] OTHER ->
                /\ html' = r.page /\ prev_sig' = NoSig /\ advance' = NoAction
                /\ hop' = 0 /\ ci' = 0 /\ keys' = {} /\ stop' = "none"
                /\ pc' = "hop"
                /\ UNCHANGED <<others, caller, days, include_past, dbTracks, li, seeds, bf, pd, ptodo,
                               probed, found, presp, out>>

\* The head of one hop: collect the page's keys, then the three stop tests.
HopTop ==
    /\ pc = "hop"
    /\ LET page_keys == ExtractKeysAny(html)
           keys2 == keys \cup Kept(page_keys, Lo(include_past), Hi(days))
           sig == Hash(html)
       IN  IF ~HopBudgetLeft(hop, days) THEN FinishWalk(keys, "budget")
           ELSE IF Unchanged(sig, prev_sig) THEN FinishWalk(keys2, "unchanged")
           ELSE IF ReachedWindowEnd(page_keys, Hi(days)) THEN FinishWalk(keys2, "window_end")
           ELSE /\ keys' = keys2
                /\ prev_sig' = sig
                /\ ci' = 1
                /\ pc' = IF advance # NoAction THEN "reuse" ELSE "discover"
                /\ UNCHANGED <<others, caller, days, include_past, dbTracks, li, html, advance, hop, stop,
                               seeds, bf, pd, ptodo, probed, found, presp, out>>

\* the reuse branch without its closing "advance=None"
Reuse_KeepsAction ==
    /\ pc = "reuse"
    /\ \E res \in ApplyAction(html, advance) :
         IF res.kind = "raise" THEN Raise
         ELSE IF AdvancesTo(html, res)
         THEN /\ html' = res.page /\ hop' = hop + 1 /\ pc' = "hop"
              /\ UNCHANGED <<others, caller, days, include_past, dbTracks, li, prev_sig, advance, ci, keys,
                             stop, seeds, bf, pd, ptodo, probed, found, presp, out>>
         ELSE /\ pc' = "discover"
              /\ UNCHANGED <<others, caller, days, include_past, dbTracks, li, html, prev_sig, advance, hop,
                             ci, keys, stop, seeds, bf, pd, ptodo, probed, found, presp, out>>

\* "if advance:" re-apply the action that advanced the previous hop.
Reuse ==
    /\ pc = "reuse"
    /\ \E res \in ApplyAction(html, advance) :
         IF res.kind = "raise" THEN Raise
         ELSE IF AdvancesTo(html, res)
         THEN /\ html' = res.page /\ hop' = hop + 1 /\ pc' = "hop"
              /\ UNCHANGED <<others, caller, days, include_past, dbTracks, li, prev_sig, advance, ci, keys,
                             stop, seeds, bf, pd, ptodo, probed, found, presp, out>>
         ELSE /\ advance' = NoAction /\ pc' = "discover"
              /\ UNCHANGED <<others, caller, days, include_past, dbTracks, li, html, prev_sig, hop, ci, keys,
                             stop, seeds, bf, pd, ptodo, probed, found, presp, out>>

\* "for cand in _candidate_actions(start_url, html): ... else: break"
Discover ==
    /\ pc = "discover"
    /\ LET cands == CandidateActions(html)
       IN  IF ci > Len(cands) THEN FinishWalk(keys, "no_action")
           ELSE \E res \in ApplyAction(html, cands[ci]) :
                  IF res.kind = "raise" THEN Raise
                  ELSE IF AdvancesTo(html, res)
                  THEN /\ advance' = cands[ci] /\ html' = res.page
                       /\ hop' = hop + 1 /\ pc' = "hop"
                       /\ UNCHANGED <<others, caller, days, include_past, dbTracks, li, prev_sig, ci, keys,
                                      stop, seeds, bf, pd, ptodo, probed, found, presp, out>>
                  ELSE /\ ci' = ci + 1
                       /\ UNCHANGED <<others, caller, days, include_past, dbTracks, pc, li, html, prev_sig,
                                      advance, hop, keys, stop, seeds, bf, pd, ptodo,
                                      probed, found, presp, out>>


(***************************************************************************)
(* The brute-force prober and discover_meeting_keys.                       *)
(***************************************************************************)
\* _tracks_by_state_from_db: what ./racing.db holds (empty when it cannot be read);
\* _tracks_by_state_from_track_types finds no dict keyed by a state code.
DbInventories ==
    {[st \in StateSet |-> {}],
     [st \in StateSet |-> IF st = "VIC" THEN {"Flemington"} ELSE {}],
     [st \in StateSet |-> IF st = "NSW" THEN Tracks ELSE {}]}

\* _tracks_from_keys
TracksFromKeys(K) == [st \in StateSet |-> {k.trk : k \in {x \in K : x.st = st}}]
\* tracks.setdefault(st, set()).update(ts)
Inventory(known, db) == [st \in StateSet |-> TracksFromKeys(known)[st] \cup db[st]]
Combos(inv) == {<<st, trk>> : st \in StateSet, trk \in Tracks} \cap
               {c \in StateSet \X Tracks : c[2] \in inv[c[1]]}

\* seeds_max = _max_key_date(seeds) or lo
SeedsMax(K, lo) == IF HasMaxKeyDate(K) THEN MaxKeyDate(K) ELSE lo
\* needs_gap_fill = seeds_max < hi - timedelta(days=3)
NeedsGapFill(K, lo, hi) == SeedsMax(K, lo) < hi - GapDays
ProbeStart_WholeWindow(known, lo) == lo
\* start = max(seeded_max + timedelta(days=1), lo)
ProbeStart(known, lo) ==
    IF SeedsMax(known, lo) + 1 >= lo THEN SeedsMax(known, lo) + 1 ELSE lo

\* What a probe's GET can come to: an exception (caught: False), or a response
\* that is ok or not, with or without a "Race 1" marker and the word "trial".
\* (there is no response when the GET raises, and "r.ok and ..." does not read
\* the text of a response that is not ok)
ProbeResponses ==
    {r \in [raised : BOOLEAN, ok : BOOLEAN, race1 : BOOLEAN, trial : BOOLEAN] :
        /\ r.raised => ~r.ok
        /\ ~r.ok => (~r.race1 /\ ~r.trial)}
\* no probe has been sent yet
NoResp == [raised |-> FALSE, ok |-> FALSE, race1 |-> FALSE, trial |-> FALSE]
LooksLikeRealProgram(r) == ~r.trial /\ r.race1
\* the probe without the trial test of _looks_like_real_program
ProbeProgram_IgnoresTrial(r) == ~r.raised /\ r.ok /\ r.race1
ProbeProgram(r) == ~r.raised /\ r.ok /\ LooksLikeRealProgram(r)

\* out = {k for k in all_keys if _within_window(k, lo, hi) and not _is_trialish(k)}
FinalFilter(K, lo, hi) == {k \in K : WithinWindow(k, lo, hi) /\ ~IsTrialishKey(k)}

GapDecide ==
    /\ pc = "gap"
    /\ LET lo == Lo(include_past)
           hi == Hi(days)
       IN  IF NeedsGapFill(seeds, lo, hi) /\ ProbeStart(seeds, lo) <= hi
           THEN /\ bf' = TRUE
                /\ pd' = ProbeStart(seeds, lo)
                /\ ptodo' = Combos(Inventory(seeds, dbTracks))
                /\ pc' = "probe"
                /\ out' = out
           ELSE /\ bf' = NeedsGapFill(seeds, lo, hi)
                /\ out' = FinalFilter(seeds, lo, hi)
                /\ pc' = "done"
                /\ UNCHANGED <<pd, ptodo>>
    /\ UNCHANGED <<others, caller, days, include_past, dbTracks, li, html, prev_sig, advance, hop, ci,
                   keys, stop, seeds, probed, found, presp>>

\* One turn of "for trk in ts": skip a trial name or a known key, else probe.
Probe ==
    /\ pc = "probe"
    /\ pd <= Hi(days)
    /\ ptodo # {}
    /\ LET c == CHOOSE x \in ptodo : TRUE
           key == Key(pd, c[1], c[2])
           rest == ptodo \ {c}
       IN  /\ IF rest = {}
              THEN pd' = pd + 1 /\ ptodo' = Combos(Inventory(seeds, dbTracks))
              ELSE pd' = pd /\ ptodo' = rest
           /\ IF IsTrialish(c[2]) \/ key \in seeds
              THEN UNCHANGED <<probed, found, presp>>
              ELSE \E r \in ProbeResponses :
                     /\ probed' = probed \cup {key}
                     /\ presp' = r
                     /\ found' = IF ProbeProgram(r) /\ ~IsTrialishKey(key)
                                 THEN found \cup {key} ELSE found
    /\ UNCHANGED <<others, caller, days, include_past, dbTracks, pc, li, html, prev_sig, advance, hop, ci,
                   keys, stop, seeds, bf, out>>

\* The prober returns found; all_keys = seeds | extra; the final filter.
ProbeDone ==
    /\ pc = "probe"
    /\ (pd > Hi(days) \/ ptodo = {})
    /\ out' = FinalFilter(seeds \cup found, Lo(include_past), Hi(days))
    /\ pc' = "done"
    /\ UNCHANGED <<others, caller, days, include_past, dbTracks, li, html, prev_sig, advance, hop, ci,
                   keys, stop, seeds, bf, pd, ptodo, probed, found, presp>>

\* The state at the call of discover_meeting_keys.
DiscoverEntry ==
    /\ caller = "discover"
    /\ days \in DaysSet
    /\ include_past \in PastSet
    /\ dbTracks \in DbInventories
    /\ pc = "walk" /\ li = 1
    /\ html = NoPage /\ prev_sig = NoSig /\ advance = NoAction
    /\ hop = 0 /\ ci = 0 /\ keys = {} /\ stop = "none"
    /\ seeds = {} /\ bf = FALSE /\ pd = 0 /\ ptodo = {}
    /\ probed = {} /\ found = {} /\ out = {} /\ presp = NoResp

DiscoverNext ==
    \/ WalkStart
    \/ HopTop
    \/ Reuse
    \/ Discover
    \/ GapDecide
    \/ Probe
    \/ ProbeDone


\* One call of _walk_calendar on one listing.
WalkEntry ==
    /\ caller = "walk"
    /\ days \in DaysSet
    /\ include_past \in PastSet
    /\ dbTracks = [st \in StateSet |-> {}]
    /\ pc = "walk" /\ li = 1
    /\ html = NoPage /\ prev_sig = NoSig /\ advance = NoAction
    /\ hop = 0 /\ ci = 0 /\ keys = {} /\ stop = "none"
    /\ seeds = {} /\ bf = FALSE /\ pd = 0 /\ ptodo = {}
    /\ probed = {} /\ found = {} /\ out = {} /\ presp = NoResp

WalkNext ==
    \/ WalkStart
    \/ HopTop
    \/ Reuse
    \/ Discover



(***************************************************************************)
(* The race_program writer, api/crawler.py.                                *)
(*                                                                         *)
(* A row handed to upsert_program_rows is a dict; None stands for a key    *)
(* that is absent or None.  The table is the sequence of its rows in id    *)
(* order.                                                                  *)
(***************************************************************************)
None == "<None>"
NoInt == 0 - 1          \* None where an integer is expected

\* str(v).strip() on the strings that occur in the rows below
Strip(v) ==
    CASE v = " Flemington" -> "Flemington"
      [] v = " " -> ""
      [] v = " 1" -> "1"
      [] OTHER -> v

\* _clean_str
CleanStr(v) == IF v = None THEN None ELSE IF Strip(v) = "" THEN None ELSE Strip(v)

\* _coerce_int
CoerceInt(v) ==
    IF v = None THEN NoInt
    ELSE CASE Strip(v) = "1" -> 1
           [] Strip(v) = "2" -> 2
           [] Strip(v) = "1200" -> 1200
           [] OTHER -> NoInt

\* _norm_date: %Y-%m-%d kept, 'YYYY-M-D' zero-padded, empty or None -> None
NormDate(v) ==
    IF v = None \/ Strip(v) = "" THEN None
    ELSE CASE Strip(v) = "2025-9-20" -> "2025-09-20"
           [] OTHER -> Strip(v)

OrEmpty(v) == IF v = None THEN "" ELSE v

\* dict.get(f): None when the dict has no such key
Get(r, f) == IF f \in DOMAIN r THEN r[f] ELSE None

\* _prep_params
PrepParams(r) ==
    [race_no |-> CoerceInt(Get(r, "race_no")),
     date |-> NormDate(Get(r, "date")),
     state |-> OrEmpty(CleanStr(Get(r, "state"))),
     track |-> OrEmpty(CleanStr(Get(r, "track"))),
     meeting_id |-> CleanStr(Get(r, "meeting_id")),
     description |-> OrEmpty(CleanStr(Get(r, "description"))),
     distance_m |-> CoerceInt(Get(r, "distance_m"))]

\* "if not p[date] or not p[state] or not p[track] or p[race_no] is None: continue"
Malformed(p) == p.date = None \/ p.state = "" \/ p.track = "" \/ p.race_no = NoInt

\* WHERE date = :date AND state = :state AND track = :track AND race_no = :race_no
SameIdentity(row, p) ==
    row.date = p.date /\ row.state = p.state /\ row.track = p.track
    /\ row.race_no = p.race_no

\* UPDATE_SQL: every matching row takes every non-identity column of p
UpdateSql(t, p) == [i \in 1..Len(t) |-> IF SameIdentity(t[i], p) THEN p ELSE t[i]]
RowCount(t, p) == Cardinality({i \in 1..Len(t) : SameIdentity(t[i], p)})
\* INSERT_SQL
InsertSql(t, p) == Append(t, p)

UpsertOne_AlwaysInsert(acc, r) ==
    LET p == PrepParams(r)
    IN  IF Malformed(p) THEN acc
        ELSE [t |-> InsertSql(acc.t, p), saved |-> acc.saved + 1, updated |-> acc.updated]

\* One turn of "for r in rows_list": UPDATE first; if no row matched, INSERT.
UpsertOne(acc, r) ==
    LET p == PrepParams(r)
    IN  IF Malformed(p) THEN acc
        ELSE IF RowCount(acc.t, p) > 0
        THEN [t |-> UpdateSql(acc.t, p), saved |-> acc.saved,
              updated |-> acc.updated + RowCount(acc.t, p)]
        ELSE [t |-> InsertSql(acc.t, p), saved |-> acc.saved + 1, updated |-> acc.updated]

\* a loop that gives up the batch at the first malformed row
RECURSIVE UpsertLoop_StopAtMalformed(_, _)
UpsertLoop_StopAtMalformed(acc, rows) ==
    IF rows = <<>> \/ Malformed(PrepParams(Head(rows))) THEN acc
    ELSE UpsertLoop_StopAtMalformed(UpsertOne(acc, Head(rows)), Tail(rows))

\* "for r in rows_list"
RECURSIVE UpsertLoop(_, _)
UpsertLoop(acc, rows) ==
    IF rows = <<>> THEN acc ELSE UpsertLoop(UpsertOne(acc, Head(rows)), Tail(rows))

\* upsert_program_rows(rows): one transaction over the whole batch
UpsertProgramRows(t, rows) == UpsertLoop([t |-> t, saved |-> 0, updated |-> 0], rows)

GoodRow(no, desc, mid) ==
    [race_no |-> no, date |-> "2025-09-20", state |-> "VIC", track |-> "Flemington",
     meeting_id |-> mid, description |-> desc, distance_m |-> None]

RowU ==
    {GoodRow("1", "Maiden Plate", None),
     GoodRow("1", "Open Handicap", "PF77"),
     GoodRow("2", "Cup", None),
     [GoodRow(" 1", "Cup", None) EXCEPT !.date = "2025-9-20", !.track = " Flemington"],
     [GoodRow("x", "Cup", None) EXCEPT !.date = None, !.distance_m = "1200"]}

RECURSIVE SeqsUpTo(_, _)
SeqsUpTo(S, n) ==
    IF n = 0 THEN {<<>>}
    ELSE SeqsUpTo(S, n - 1) \cup {Append(q, x) : q \in {y \in SeqsUpTo(S, n - 1) : Len(y) = n - 1}, x \in S}

Batches == SeqsUpTo(RowU, MaxBatch)

Upsert ==
    /\ \E rows \in Batches :
         LET res == UpsertProgramRows(table, rows)
         IN  /\ table' = res.t
             /\ lastResult' = <<res.saved, res.updated>>
             /\ lastBatch' = rows
             /\ prevTable' = table
             /\ repeat' = (rows = lastBatch)
    /\ UNCHANGED <<dvars, bvars, hvars, lvars, cvars, jvars>>

DiscoverIdle ==
    /\ caller = "idle" /\ days = 0 /\ include_past = 0
    /\ dbTracks = [st \in StateSet |-> {}]
    /\ pc = "idle" /\ li = 0
    /\ html = NoPage /\ prev_sig = NoSig /\ advance = NoAction
    /\ hop = 0 /\ ci = 0 /\ keys = {} /\ stop = "none"
    /\ seeds = {} /\ bf = FALSE /\ pd = 0 /\ ptodo = {}
    /\ probed = {} /\ found = {} /\ out = {} /\ presp = NoResp

WriterIdle ==
    /\ lastBatch = <<>> /\ lastResult = <<0, 0>>
    /\ prevTable = <<>> /\ repeat = FALSE

UpsertIdle == table = <<>> /\ WriterIdle



(***************************************************************************)
(* Venue-name canonicalisation, api/backfill_meeting_ids.py.               *)
(*                                                                         *)
(* A name is the sequence of its words and of the characters between them  *)
(* (" " and the separators "-", ",", "/"); the code's substring            *)
(* operations act on these sequences.  No word of the vocabulary holds a   *)
(* sponsor or junk word as a proper substring.                             *)
(***************************************************************************)
Tokens(name) ==
    CASE name = "" -> <<>>
      [] name = "Ballarat" -> <<"Ballarat">>
      [] name = "Sportsbet-Ballarat" -> <<"Sportsbet", "-", "Ballarat">>
      [] name = "Ladbrokes Ballarat" -> <<"Ladbrokes", " ", "Ballarat">>
      [] name = "Flemington" -> <<"Flemington">>
      [] name = " Flemington" -> <<" ", "Flemington">>
      [] name = "Mt Gambier" -> <<"Mt", " ", "Gambier">>
      [] name = "Canterbury Park" -> <<"Canterbury", " ", "Park">>

\* str.lower() on one word
Lower(w) ==
    CASE w = "Ballarat" -> "ballarat"
      [] w = "Sportsbet" -> "sportsbet"
      [] w = "Ladbrokes" -> "ladbrokes"
      [] w = "Flemington" -> "flemington"
      [] w = "Mt" -> "mt"
      [] w = "Gambier" -> "gambier"
      [] w = "Canterbury" -> "canterbury"
      [] w = "Park" -> "park"
      [] OTHER -> w

IsSpace(t) == t = " "

RECURSIVE LStrip(_)
LStrip(s) == IF s # <<>> /\ IsSpace(Head(s)) THEN LStrip(Tail(s)) ELSE s

RECURSIVE RStrip(_)
RStrip(s) ==
    IF s # <<>> /\ IsSpace(s[Len(s)]) THEN RStrip(SubSeq(s, 1, Len(s) - 1)) ELSE s

StripToks(s) == RStrip(LStrip(s))

\* re.sub(r"\s+", " ", s)
RECURSIVE CollapseSpaces(_)
CollapseSpaces(s) ==
    IF Len(s) < 2 THEN s
    ELSE IF IsSpace(s[1]) /\ IsSpace(s[2]) THEN CollapseSpaces(Tail(s))
    ELSE <<Head(s)>> \o CollapseSpaces(Tail(s))

StartsWith(s, p) == Len(s) >= Len(p) /\ SubSeq(s, 1, Len(p)) = p
EndsWith(s, p) == Len(s) >= Len(p) /\ SubSeq(s, Len(s) - Len(p) + 1, Len(s)) = p
DropFirst(s, n) == SubSeq(s, n + 1, Len(s))
DropLast(s, n) == SubSeq(s, 1, Len(s) - n)

\* str.replace(pat, rep): every non-overlapping occurrence, left to right
RECURSIVE ReplaceAll(_, _, _)
ReplaceAll(s, pat, rep) ==
    IF Len(s) < Len(pat) \/ s = <<>> THEN s
    ELSE IF StartsWith(s, pat) THEN rep \o ReplaceAll(DropFirst(s, Len(pat)), pat, rep)
    ELSE <<Head(s)>> \o ReplaceAll(Tail(s), pat, rep)

Replacements ==
    << <<(<<"mt", " ">>), (<<"mount", " ">>)>>,
       <<(<<"mt.", " ">>), (<<"mount", " ">>)>>,
       <<(<<"st", " ">>), (<<"saint", " ">>)>>,
       <<(<<"st.", " ">>), (<<"saint", " ">>)>> >>

\* "for short, full in replacements: if s.startswith(short): ...; break"
RECURSIVE ExpandPrefix(_, _)
ExpandPrefix(s, reps) ==
    IF reps = <<>> THEN s
    ELSE IF StartsWith(s, reps[1][1]) THEN reps[1][2] \o DropFirst(s, Len(reps[1][1]))
    ELSE ExpandPrefix(s, Tail(reps))

\* _normalise_track_name
NormaliseTrackName(raw) ==
    IF raw = <<>> THEN <<>>
    ELSE ExpandPrefix(
           CollapseSpaces([i \in 1..Len(StripToks(raw)) |-> Lower(StripToks(raw)[i])]),
           Replacements)

Separators == {"-", ",", "/"}

Sponsors ==
    << <<"sportsbet">>, <<"ladbrokes">>, <<"bet365">>, <<"picklebet">>,
       <<"thomas", " ", "farms">>, <<"aquis", " ", "park">>, <<"aquis">>,
       <<"tabtouch">>, <<"tab", " ">> >>

JunkWords ==
    << <<"rc">>, <<"racecourse">>, <<"raceway">>, <<"race", " ", "club">>,
       <<"race", " ", "club", " ", "inc">>,
       <<"race", " ", "club", " ", "incorporated">>, <<"park">>, <<"gh">> >>

RECURSIVE StripSponsors(_, _)
StripSponsors(s, sps) ==
    IF sps = <<>> THEN s ELSE StripSponsors(ReplaceAll(s, Head(sps), <<>>), Tail(sps))

StripJunkWord(s, jw) ==
    LET s1 == ReplaceAll(s, <<" ">> \o jw \o <<" ">>, <<" ">>)
        s2 == IF EndsWith(s1, <<" ">> \o jw) THEN DropLast(s1, Len(jw) + 1) ELSE s1
    IN  IF StartsWith(s2, jw \o <<" ">>) THEN DropFirst(s2, Len(jw) + 1) ELSE s2

RECURSIVE StripJunk(_, _)
StripJunk(s, jws) ==
    IF jws = <<>> THEN s ELSE StripJunk(StripJunkWord(s, Head(jws)), Tail(jws))

\* canonical_track_name
CanonicalTrackName(raw) ==
    LET n == NormaliseTrackName(raw)
        sep == [i \in 1..Len(n) |-> IF n[i] \in Separators THEN " " ELSE n[i]]
        s == CollapseSpaces(StripToks(StripJunk(StripSponsors(sep, Sponsors), JunkWords)))
    IN  IF raw = <<>> \/ n = <<>> THEN <<>>
        ELSE IF StartsWith(s, <<"southside", " ", "cranbourne">>) THEN <<"cranbourne">>
        ELSE IF StartsWith(s, <<"southside", " ", "pakenham">>) THEN <<"pakenham">>
        ELSE s


\* ---- a caller that canonicalises a venue name, then the result again ----
MaxNameLen == 5         \* most words and separators in a venue name
NameTokens == {"Sportsbet", "Park", "Mt", "Gambier", " ", "-"}
VenueNames == UNION {[1..n -> NameTokens] : n \in 0..MaxNameLen}

Canonicalize ==
    /\ ccalls < 2
    /\ cname' = CanonicalTrackName(IF ccalls = 0 THEN craw ELSE cname)
    /\ cprev' = cname
    /\ ccalls' = ccalls + 1
    /\ UNCHANGED <<dvars, uvars, bvars, hvars, lvars, jvars, craw>>

CanonIdle == craw = <<>> /\ cname = <<>> /\ cprev = <<>> /\ ccalls = 0

CanonEntry == craw \in VenueNames /\ cname = <<>> /\ cprev = <<>> /\ ccalls = 0

(***************************************************************************)
(* The provider-id backfill, api/backfill_meeting_ids.py.                  *)
(***************************************************************************)
AUS_STATES == {"NSW", "VIC", "QLD", "SA", "WA", "TAS", "NT", "ACT"}

\* str.upper() on the state codes that occur below
Upper(v) == CASE v = "vic" -> "VIC" [] OTHER -> v

\* _as_date, as a day number relative to today
AsDate(v) ==
    CASE v = "2025-09-20" -> 0
      [] v = "2025-09-21" -> 1
      [] v = "2025-09-10" -> 0 - 10

\* backfill(past_days=2, future_days=3)
PastDays == 2
FutureDays == 3

\* WHERE meeting_id IS NULL OR TRIM(COALESCE(meeting_id, '')) = ''
BlankMeetingId(row) == row.meeting_id = None \/ Strip(row.meeting_id) = ""

Meeting(d, st, trk) == [d |-> d, st |-> st, trk |-> trk]

\* the candidates of step 1, restricted to the window
Candidates(t) ==
    {Meeting(AsDate(t[i].date), Upper(t[i].state), t[i].track) :
        i \in {j \in 1..Len(t) :
                 /\ BlankMeetingId(t[j])
                 /\ 0 - PastDays <= AsDate(t[j].date)
                 /\ AsDate(t[j].date) <= FutureDays}}

\* sorted(by_date.keys())
RECURSIVE SortedDates(_)
SortedDates(S) ==
    IF S = {} THEN <<>>
    ELSE LET m == CHOOSE x \in S : \A y \in S : x <= y
         IN  <<m>> \o SortedDates(S \ {m})

\* the payload entries _fetch_pf_meetings_for_date keeps
PfUsable(m) == Upper(OrEmpty(m.state)) \in AUS_STATES /\ m.meetingId # None

\* the venue names that occur below, and canonical_track_name of each
TrackNames ==
    {"", "Ballarat", "Sportsbet-Ballarat", "Ladbrokes Ballarat", "Flemington",
     " Flemington", "Mt Gambier", "Canterbury Park"}
CanonOf == [n \in TrackNames |-> CanonicalTrackName(Tokens(n))]

\* the key of pf_map and of the lookup: (state, canonical name)
PfKey_AnyRegion(st, name) == <<"", CanonOf[name]>>
PfKey(st, name) == <<st, CanonOf[name]>>

\* pf_map.get(key): the last usable entry of the payload with that key
PfGet(payload, key) ==
    LET hits == {i \in 1..Len(payload) :
                   /\ PfUsable(payload[i])
                   /\ PfKey(Upper(OrEmpty(payload[i].state)), OrEmpty(payload[i].name)) = key}
    IN  IF hits = {} THEN None ELSE payload[SetMax(hits)].meetingId

PfMapEmpty(payload) == \A i \in 1..Len(payload) : ~PfUsable(payload[i])

\* the provider venues of the payload that share a local venue's key
Rivals(payload, st, trk) ==
    {payload[i].name : i \in {j \in 1..Len(payload) :
        /\ PfUsable(payload[j])
        /\ PfKey(Upper(OrEmpty(payload[j].state)), OrEmpty(payload[j].name)) = PfKey(st, trk)}}

\* UPDATE race_program SET meeting_id = :mid WHERE date = :d AND state = :s AND track = :t
MeetingRows(t, m) ==
    {i \in 1..Len(t) : AsDate(t[i].date) = m.d /\ t[i].state = m.st /\ t[i].track = m.trk}
SetMeetingId(t, m, mid) ==
    [i \in 1..Len(t) |-> IF i \in MeetingRows(t, m) THEN [t[i] EXCEPT !.meeting_id = mid] ELSE t[i]]

\* "for state, track in day_meetings" on one date with its provider payload
RECURSIVE MatchDay(_, _, _, _)
MatchDay(acc, ms, payload, dry) ==
    IF ms = {} THEN acc
    ELSE LET m == CHOOSE x \in ms : TRUE
             mid == PfGet(payload, PfKey(m.st, m.trk))
             count == Cardinality(MeetingRows(acc.t, m))
             nxt == IF mid = None THEN acc
                    ELSE [t |-> IF dry THEN acc.t ELSE SetMeetingId(acc.t, m, mid),
                          res |-> IF count > 0
                                  THEN <<acc.res[1] + 1, acc.res[2] + count>>
                                  ELSE acc.res,
                          log |-> IF dry THEN acc.log
                                  ELSE acc.log \cup
                                       {[d |-> m.d, st |-> m.st, trk |-> m.trk, mid |-> mid,
                                         rivals |-> Rivals(payload, m.st, m.trk)]}]
         IN  MatchDay(nxt, ms \ {m}, payload, dry)

PfMeeting(st, name, id) == [state |-> st, name |-> name, meetingId |-> id]

PfMeetingU ==
    {PfMeeting("VIC", "Sportsbet-Ballarat", "PF1"),
     PfMeeting("vic", "Ladbrokes Ballarat", "PF2"),
     PfMeeting("VIC", "Flemington", "PF3"),
     PfMeeting("NZ", "Flemington", "PF4"),
     PfMeeting("VIC", "Flemington", None),
     PfMeeting("VIC", "Ballarat", "PF5"),
     PfMeeting("NSW", "Ballarat", "PF6")}

\* the provider's answers to one meetingslist request
PfResponses ==
    {[ok |-> FALSE, payload |-> <<>>]}
      \cup {[ok |-> TRUE, payload |-> q] : q \in SeqsUpTo(PfMeetingU, MaxPayload)}

StoredRow(no, date, track, mid) ==
    [race_no |-> no, date |-> date, state |-> "VIC", track |-> track,
     meeting_id |-> mid, description |-> "", distance_m |-> NoInt]

StoredRows ==
    <<StoredRow(1, "2025-09-20", "Ballarat", None),
      StoredRow(2, "2025-09-20", "Ballarat", "PF9"),
      StoredRow(1, "2025-09-21", "Flemington", " "),
      StoredRow(1, "2025-09-21", "Ballarat", "PF9"),
      StoredRow(1, "2025-09-10", "Flemington", None),
      StoredRow(1, "2025-09-20", "Sportsbet-Ballarat", None)>>

RECURSIVE Pick(_, _)
Pick(rows, I) ==
    IF rows = <<>> THEN <<>>
    ELSE (IF Len(rows) \in I THEN Pick(SubSeq(rows, 1, Len(rows) - 1), I) \o <<rows[Len(rows)]>>
          ELSE Pick(SubSeq(rows, 1, Len(rows) - 1), I))

StoredTables == {Pick(StoredRows, I) : I \in SUBSET (1..Len(StoredRows))}

\* the stored tables of one race day
MatchTables ==
    {Pick(StoredRows, I) :
        I \in SUBSET {i \in 1..Len(StoredRows) : StoredRows[i].date = "2025-09-20"}}

\* step 1 and the grouping by date
BackfillStart ==
    /\ bpc = "start"
    /\ LET cands == Candidates(table)
       IN  IF cands = {}
           THEN /\ bpc' = "done"
                /\ UNCHANGED <<txn, bcands, bdates>>
           ELSE /\ bpc' = "dates"
                /\ bcands' = cands
                /\ bdates' = SortedDates({c.d : c \in cands})
                /\ txn' = table
    /\ bres' = <<0, 0>>
    /\ UNCHANGED <<dvars, uvars, hvars, lvars, cvars, jvars, dry_run, written, failed, processed, bpay>>

\* one turn of "for d in all_dates", inside "with eng.begin() as conn"
BackfillDate ==
    /\ bpc = "dates" /\ bdates # <<>>
    /\ \E resp \in PfResponses :
         LET d == Head(bdates)
             day == {c \in bcands : c.d = d}
             acc == MatchDay([t |-> txn, res |-> bres, log |-> written], day,
                             resp.payload, dry_run)
         IN  IF ~resp.ok
             THEN \* raise_for_status raises; the transaction is rolled back
                  /\ bpc' = "raised"
                  /\ failed' = failed \cup {d}
                  /\ txn' = <<>>
                  /\ UNCHANGED <<bdates, bres, written, processed, bpay>>
             ELSE /\ bdates' = Tail(bdates)
                  /\ processed' = processed \cup {d}
                  /\ bpay' = resp.payload
                  /\ IF PfMapEmpty(resp.payload)
                     THEN UNCHANGED <<txn, bres, written>>
                     ELSE txn' = acc.t /\ bres' = acc.res /\ written' = acc.log
                  /\ UNCHANGED <<bpc, failed>>
    /\ UNCHANGED <<dvars, uvars, hvars, lvars, cvars, jvars, dry_run, bcands>>

\* the end of the "with" block: commit
BackfillCommit ==
    /\ bpc = "dates" /\ bdates = <<>>
    /\ table' = txn
    /\ bpc' = "done"
    /\ UNCHANGED <<dvars, hvars, lvars, cvars, jvars, lastBatch, lastResult, prevTable, repeat>>
    /\ UNCHANGED <<dry_run, txn, bcands, bdates, bres, written, failed, processed, bpay>>

BackfillIdle ==
    /\ bpc = "idle" /\ dry_run = FALSE /\ txn = <<>> /\ bcands = {} /\ bdates = <<>>
    /\ bres = <<0, 0>> /\ written = {} /\ failed = {} /\ processed = {} /\ bpay = <<>>

BackfillEntry ==
    /\ bpc = "start" /\ dry_run \in BOOLEAN /\ txn = <<>> /\ bcands = {} /\ bdates = <<>>
    /\ bres = <<0, 0>> /\ written = {} /\ failed = {} /\ processed = {} /\ bpay = <<>>

BackfillNext ==
    \/ BackfillStart
    \/ BackfillDate
    \/ BackfillCommit


(***************************************************************************)
(* The harvester: api/program_parser.py and api/ra_harvest.py.             *)
(*                                                                         *)
(* A page is the sequence of its tokens: a race label ("Race 1"), a        *)
(* distance in brackets, a word, a tag, or one blank.  A pattern of the    *)
(* code is the test for the tokens it matches.                             *)
(***************************************************************************)
NoTs == 0 - 1           \* a URL without the _ts parameter

PageTokens == {"Race 1", "Race 2", "(1200 METRES)", "Plate", "BM64", "<br>"}
WordTokens == {"Plate", "BM64"}

IsTag(t) == t = "<br>"
IsRaceLabel(t) == t \in {"Race 1", "Race 2"}
IsMetres(t) == t = "(1200 METRES)"
RaceNoOf(t) == CASE t = "Race 1" -> 1 [] t = "Race 2" -> 2 [] OTHER -> 0
MetresOf(t) == CASE t = "(1200 METRES)" -> 1200 [] OTHER -> NoInt
CharLen(t) ==
    CASE t = "(1200 METRES)" -> 13
      [] IsRaceLabel(t) -> 6
      [] t = "Plate" -> 5
      [] t = " " -> 1
      [] OTHER -> 4

Has(s, w) == \E i \in 1..Len(s) : s[i] = w

\* _clean: tags become blanks, runs of blanks collapse, the ends are stripped
Clean(h) == StripToks(CollapseSpaces([i \in 1..Len(h) |-> IF IsTag(h[i]) THEN " " ELSE h[i]]))

\* _RE_HEADER_FULL.finditer(text) from position p: a match runs from a race label
\* to the first bracketed distance after it; the search goes on behind the match
RECURSIVE HeadsFrom(_, _)
HeadsFrom(text, p) ==
    IF p > Len(text) THEN <<>>
    ELSE LET closers == {q \in (p + 1)..Len(text) : IsMetres(text[q])}
         IN  IF IsRaceLabel(text[p]) /\ closers # {}
             THEN LET q == CHOOSE x \in closers : \A y \in closers : x <= y
                  IN  <<[start |-> p, end |-> q]>> \o HeadsFrom(text, q + 1)
             ELSE HeadsFrom(text, p + 1)

Heads(text) == HeadsFrom(text, 1)

\* _normalize_title
NormalizeTitle(raw) == StripToks(raw)

\* the blanks str.strip() takes from the left and from the right
LeadBlanks(s) == Len(s) - Len(LStrip(s))
TrailBlanks(s) == Len(LStrip(s)) - Len(StripToks(s))

IterBlocks_ToEnd(text) ==
    LET heads == Heads(text)
    IN  [i \in 1..Len(heads) |->
           LET h == heads[i]
               raw == SubSeq(text, h.end + 1, Len(text))
           IN  [race_no |-> RaceNoOf(text[h.start]),
                title_raw |-> LStrip(SubSeq(text, h.start + 1, h.end - 1)),
                distance |-> MetresOf(text[h.end]),
                block |-> StripToks(raw),
                from |-> h.end + 1 + LeadBlanks(raw),
                to |-> Len(text) - TrailBlanks(raw)]]

\* _iter_blocks; from and to are where the stripped block lies in the text
IterBlocks(text) ==
    LET heads == Heads(text)
    IN  [i \in 1..Len(heads) |->
           LET h == heads[i]
               stop_ == IF i + 1 <= Len(heads) THEN heads[i + 1].start - 1 ELSE Len(text)
               raw == SubSeq(text, h.end + 1, stop_)
           IN  [race_no |-> RaceNoOf(text[h.start]),
                title_raw |-> LStrip(SubSeq(text, h.start + 1, h.end - 1)),
                distance |-> MetresOf(text[h.end]),
                block |-> StripToks(raw),
                from |-> h.end + 1 + LeadBlanks(raw),
                to |-> stop_ - TrailBlanks(raw)]]

\* _pick_class
PickClass(block, title) ==
    IF Has(block, "Group 1") THEN "G1"
    ELSE IF Has(block, "Listed") THEN "Listed"
    ELSE IF Has(title, "BM64") THEN "BM64"
    ELSE IF Has(title, "Maiden") THEN "Maiden"
    ELSE IF Has(title, "Class 3") THEN "CL3"
    ELSE IF Has(title, "Open") \/ Has(block, "No class restriction") THEN "Open"
    ELSE None

\* _derive_bm_or_class_from_text
DeriveBmOrClassFromText(txt) ==
    IF Has(txt, "Base Rating 71") THEN "BM71"
    ELSE IF Has(txt, "RTG 66+") THEN "BM66+"
    ELSE IF Has(txt, "BM64") THEN "BM64"
    ELSE IF Has(txt, "Class 3") THEN "CL3"
    ELSE None

\* html[m.start(): m.start() + 2000]
NearWindow == 2000

RECURSIVE TakeChars(_, _)
TakeChars(s, n) ==
    IF s = <<>> \/ CharLen(Head(s)) > n THEN <<>>
    ELSE <<Head(s)>> \o TakeChars(Tail(s), n - CharLen(Head(s)))

\* _derive_class_near_race
DeriveClassNearRace(h, race_no) ==
    LET at == {i \in 1..Len(h) : IsRaceLabel(h[i]) /\ RaceNoOf(h[i]) = race_no}
    IN  IF h = <<>> \/ race_no = 0 \/ at = {} THEN None
        ELSE LET m == CHOOSE x \in at : \A y \in at : x <= y
             IN  DeriveBmOrClassFromText(TakeChars(DropFirst(h, m - 1), NearWindow))

\* a meeting key "YYYYMonDD,STATE,Track" of the given number of comma-separated parts
RaKey(ymd, st, trk, parts) == [ymd |-> ymd, state |-> st, track |-> trk, parts |-> parts]
ProgramUrl(key, ts) == [key |-> key, ts |-> ts]

\* _parse_key_from_url: the month is written without a leading zero
ParseKeyFromUrl(url) ==
    IF url.key.parts # 3 THEN [date |-> None, state |-> None, track |-> None]
    ELSE [date |-> CASE url.key.ymd = "2025Sep20" -> "2025-9-20" [] OTHER -> None,
          state |-> url.key.state, track |-> url.key.track]

\* _parse_key_meta_from_url: the first three parts, the date zero-padded
ParseKeyMetaFromUrl(url) ==
    IF url.key.parts < 3 THEN [date |-> None, state |-> None, track |-> None]
    ELSE [date |-> CASE url.key.ymd = "2025Sep20" -> "2025-09-20" [] OTHER -> None,
          state |-> Upper(url.key.state), track |-> url.key.track]

\* _date_from_key
DateFromKey(key) == CASE key.ymd = "2025Sep20" -> "2025-09-20" [] OTHER -> None

\* _postprocess_rows on one row
PostprocessRow(r, url, h) ==
    LET own == DeriveBmOrClassFromText(r.description)
        derived == IF own # None THEN own
                   ELSE IF r.race_no # 0 THEN DeriveClassNearRace(h, r.race_no)
                   ELSE None
        classed == IF derived # None THEN [r EXCEPT !.class = derived] ELSE r
        meta == ParseKeyMetaFromUrl(url)
    IN  [classed EXCEPT
           !.date = IF @ = None THEN meta.date ELSE @,
           !.state = IF @ = None THEN meta.state ELSE @,
           !.track = IF @ = None THEN meta.track ELSE @]

ParseUrl_Fetched(url, fetched) == fetched

\* the url parse_program is given: the program URL, not the URL that was fetched
ParseUrl(url, fetched) == url

\* parse_program
ParseProgram(h, url) ==
    LET blocks == IterBlocks(Clean(h))
        meta == ParseKeyFromUrl(url)
    IN  [i \in 1..Len(blocks) |->
           LET title == NormalizeTitle(blocks[i].title_raw)
           IN  PostprocessRow(
                 [race_no |-> blocks[i].race_no,
                  date |-> meta.date, state |-> meta.state, track |-> meta.track,
                  description |-> title,
                  class |-> PickClass(blocks[i].block, title),
                  distance |-> blocks[i].distance,
                  url |-> url],
                 url, h)]

\* _infer_class_from_text
InferClassFromText(t) ==
    IF Has(t, "Group 1") THEN "Group 1"
    ELSE IF Has(t, "Listed") THEN "Listed"
    ELSE IF Has(t, "Maiden") THEN "Maiden"
    ELSE IF Has(t, "BM64") THEN "BM64"
    ELSE None

\* _normalize_rows on one row
NormalizeRow(r, key) ==
    LET dated == IF r.date = None THEN [r EXCEPT !.date = DateFromKey(key)] ELSE r
        inferred == InferClassFromText(r.description)
    IN  IF r.class \in {None, "Open"} /\ inferred # None
        THEN [dated EXCEPT !.class = inferred]
        ELSE dated

\* harvest_program(key, force) at time now, the upstream serving page h
HarvestProgram(key, force, now, h) ==
    LET url == ProgramUrl(key, NoTs)
        fetched == IF force THEN ProgramUrl(key, now) ELSE url
        rows == ParseProgram(h, ParseUrl(url, fetched))
    IN  [i \in 1..Len(rows) |-> NormalizeRow(rows[i], key)]


K1 == RaKey("2025Sep20", "VIC", "Flemington", 3)
K2 == RaKey("2025Sep20", "vic", "Flemington", 4)
HarvestKeys == {K1, K2}

ProgramPages == SeqsUpTo(PageTokens, MaxPage)
ShortPageLen == 2
HarvestPages == SeqsUpTo(PageTokens, ShortPageLen)
OtherPage == <<"Race 1", "Plate", "(1200 METRES)">>

\* program pages whose blocks can carry a Listed signal
ClassTokens == {"Race 1", "(1200 METRES)", "Listed", "BM64", "Plate"}
ClassPages == SeqsUpTo(ClassTokens, MaxPage)

NoRows == [set |-> FALSE, rows |-> <<>>]

\* one call harvest_program(key, force=force) that returns
Harvest(mkeys, forces, limit) ==
    /\ \E key \in mkeys, force \in forces :
         /\ hcalls[key] < limit
         /\ LET rows == HarvestProgram(key, force, hclock, upstream[key])
            IN  /\ hres' = [hres EXCEPT ![key] = rows]
                /\ hfirst' = [hfirst EXCEPT ![key] =
                                IF @.set THEN @ ELSE [set |-> TRUE, rows |-> rows]]
                /\ hforces' = [hforces EXCEPT ![key] = @ \cup {force}]
                /\ hblocks' = [text |-> Clean(upstream[key]),
                               blocks |-> IterBlocks(Clean(upstream[key]))]
         /\ hcalls' = [hcalls EXCEPT ![key] = @ + 1]
    /\ hclock' = hclock + 1
    /\ UNCHANGED <<dvars, uvars, bvars, lvars, cvars, jvars, upstream, page0, rows0, editAt>>

\* one call harvest_program(key) whose fetch fails: _fetch_html raises
HarvestFails ==
    /\ \E key \in HarvestKeys :
         /\ hcalls[key] < MaxCalls
         /\ hcalls' = [hcalls EXCEPT ![key] = @ + 1]
    /\ hclock' = hclock + 1
    /\ UNCHANGED <<dvars, uvars, bvars, lvars, cvars, jvars, upstream, hres, hblocks, hfirst, hforces,
                   page0, rows0, editAt>>

\* the upstream changes one word of the page of K1 after its first harvest
EditWord ==
    /\ editAt = 0 /\ hcalls[K1] = 1
    /\ \E q \in 1..Len(upstream[K1]), w \in WordTokens :
         /\ upstream[K1][q] \in WordTokens \ {w}
         /\ upstream' = [upstream EXCEPT ![K1][q] = w]
         /\ editAt' = q
    /\ page0' = upstream[K1]
    /\ rows0' = hres[K1]
    /\ hfirst' = [hfirst EXCEPT ![K1] = NoRows]
    /\ hforces' = [hforces EXCEPT ![K1] = {}]
    /\ UNCHANGED <<dvars, uvars, bvars, lvars, cvars, jvars, hclock, hcalls, hres, hblocks>>

HarvestIdle ==
    /\ upstream = [k \in HarvestKeys |-> <<>>]
    /\ hclock = 0 /\ hcalls = [k \in HarvestKeys |-> 0]
    /\ hres = [k \in HarvestKeys |-> <<>>]
    /\ hblocks = [text |-> <<>>, blocks |-> <<>>]
    /\ hfirst = [k \in HarvestKeys |-> NoRows]
    /\ hforces = [k \in HarvestKeys |-> {}]
    /\ page0 = <<>> /\ rows0 = <<>> /\ editAt = 0

HarvestEntry(pages) ==
    /\ upstream \in {[k \in HarvestKeys |-> IF k = K1 THEN h ELSE OtherPage] : h \in pages}
    /\ hclock = 0 /\ hcalls = [k \in HarvestKeys |-> 0]
    /\ hres = [k \in HarvestKeys |-> <<>>]
    /\ hblocks = [text |-> <<>>, blocks |-> <<>>]
    /\ hfirst = [k \in HarvestKeys |-> NoRows]
    /\ hforces = [k \in HarvestKeys |-> {}]
    /\ page0 = <<>> /\ rows0 = <<>> /\ editAt = 0

(***************************************************************************)
(* Harvest, then persist: api/smoke_harvest.py.                            *)
(***************************************************************************)
\* an int of a harvested row in the writer's values, where it is the decimal
\* text: _coerce_int returns an int as it is
IntText(n) ==
    CASE n = 1 -> "1"
      [] n = 2 -> "2"
      [] n = 1200 -> "1200"
      [] OTHER -> None

RECURSIVE JoinToks(_)
JoinToks(s) == IF s = <<>> THEN "" ELSE Head(s) \o JoinToks(Tail(s))

\* the dict of a harvested row as upsert_program_rows receives it: the keys
\* parse_program gave it
HarvestedDict(h) ==
    [race_no |-> IntText(h.race_no),
     date |-> h.date, state |-> h.state, track |-> h.track,
     description |-> IF h.description = <<>> THEN None ELSE JoinToks(h.description),
     class |-> h.class,
     distance |-> IntText(h.distance)]

HarvestedDicts(rows) == [i \in 1..Len(rows) |-> HarvestedDict(rows[i])]

\* one turn of the loop of main(): harvest_program_from_key, then
\* upsert_program_rows on its rows when there are any
SmokeHarvest ==
    /\ \E force \in BOOLEAN :
         /\ hcalls[K1] < MaxCalls
         /\ LET rows == HarvestProgram(K1, force, hclock, upstream[K1])
                dicts == HarvestedDicts(rows)
                res == UpsertProgramRows(table, dicts)
            IN  /\ hres' = [hres EXCEPT ![K1] = rows]
                /\ hfirst' = [hfirst EXCEPT ![K1] =
                                IF @.set THEN @ ELSE [set |-> TRUE, rows |-> rows]]
                /\ hforces' = [hforces EXCEPT ![K1] = @ \cup {force}]
                /\ hblocks' = [text |-> Clean(upstream[K1]),
                               blocks |-> IterBlocks(Clean(upstream[K1]))]
                /\ IF rows = <<>>
                   THEN UNCHANGED uvars
                   ELSE /\ table' = res.t
                        /\ lastResult' = <<res.saved, res.updated>>
                        /\ lastBatch' = dicts
                        /\ prevTable' = table
                        /\ repeat' = (dicts = lastBatch)
         /\ hcalls' = [hcalls EXCEPT ![K1] = @ + 1]
    /\ hclock' = hclock + 1
    /\ UNCHANGED <<dvars, bvars, lvars, cvars, jvars, upstream, page0, rows0, editAt>>

\* the upstream publishes another program page for K1
Republish ==
    /\ hcalls[K1] >= 1
    /\ \E h \in HarvestPages \ {upstream[K1]} : upstream' = [upstream EXCEPT ![K1] = h]
    /\ UNCHANGED <<dvars, uvars, bvars, lvars, cvars, jvars, hclock, hcalls, hres, hblocks, hfirst,
                   hforces, page0, rows0, editAt>>

(***************************************************************************)
(* The listing walker, api/ra_discover.py.                                 *)
(*                                                                         *)
(* A key is the text DATE,STATE,TRACK.  It is modelled by what the code    *)
(* reads of it: the shape of its date text ("ok" is YYYYMonDD with a       *)
(* two-digit day, "short" has a one-digit day, "bad" has the shape but is  *)
(* no calendar day, such as 2025Sep31), the day it names, the number of    *)
(* comma-separated parts, the state and the track.                         *)
(***************************************************************************)
VALID_STATES == {"NSW", "VIC", "QLD", "WA", "SA", "TAS", "ACT", "NT"}
NoDay == 0 - 99                      \* None where a date is expected
ListDays == 7                        \* discover_meeting_keys(days=7)
ListPast == 0                        \* include_past=0
StartDate == 0 - ListPast
EndDate == ListDays
MaxStagnantSteps == 2
WalkMaxHops == 40
HopDays == 7

NoKey == [dtxt |-> "none", d |-> NoDay, parts |-> 0, st |-> "", trk |-> ""]
LKey(dtxt, d, parts, st, trk) ==
    [dtxt |-> dtxt, d |-> d, parts |-> parts, st |-> st, trk |-> trk]

\* datetime.strptime(dstr, "%Y%b%d"): a one-digit day parses, the 31st of
\* September does not
ParseKeyDate(k) == IF k.dtxt \in {"ok", "short"} THEN k.d ELSE NoDay

\* _EXCLUDE_TAGS.search(track)
ExcludeTags(trk) == trk \in {"Cranbourne Trial", "Werribee Jump Out"}

\* _norm_track: unescape, drop <>#" and strip
NormTrack(trk) ==
    CASE trk = "Flemington " -> "Flemington"
      [] trk = "#" -> ""
      [] OTHER -> trk

NormalizeKey(k) ==
    IF Upper(k.st) \notin VALID_STATES THEN NoKey
    ELSE IF ParseKeyDate(k) = NoDay THEN NoKey
    ELSE IF ExcludeTags(k.trk) THEN NoKey
    ELSE IF NormTrack(k.trk) = "" THEN NoKey
    ELSE LKey("ok", k.d, 3, Upper(k.st), NormTrack(k.trk))

\* the text a strategy-4 match keeps of a track: the lazy group stops at the
\* first character
FirstChar(trk) ==
    CASE trk = "Flemington" -> "F"
      [] trk = "Flemington " -> "F"
      [] trk = "Cranbourne Trial" -> "C"
      [] trk = "Werribee Jump Out" -> "W"
      [] OTHER -> trk

\* the date,state,track shape the tuple patterns of strategies 2-4 ask for
TupleShape(c) ==
    /\ c.parts >= 3
    /\ c.dtxt \in {"ok", "bad"}
    /\ Upper(c.st) \in VALID_STATES
    /\ c.trk # ""

RawKey(c) == LKey(c.dtxt, c.d, c.parts, c.st, c.trk)

Some(k) == IF k = NoKey THEN {} ELSE {k}

\* the keys the four strategies collect from one occurrence in the page
StrategyKeys(c) ==
    (IF c.form \in {"href", "href_enc"} THEN {RawKey(c)} ELSE {})
    \cup (IF c.form = "href_enc" /\ TupleShape(c)
             THEN Some(NormalizeKey(RawKey(c))) ELSE {})
    \cup (IF c.form = "quoted" /\ TupleShape(c)
             THEN Some(NormalizeKey(RawKey(c))) ELSE {})
    \cup (IF c.form \in {"href", "plain"} /\ TupleShape(c)
             THEN Some(NormalizeKey(LKey(c.dtxt, c.d, c.parts, c.st, FirstChar(c.trk))))
             ELSE {})

\* "looks normalized": three parts and a first part of the shape YYYYMonDD
LooksNormalized(k) == k.parts >= 3 /\ k.dtxt \in {"ok", "bad"}

FinalNormalize(k) == IF LooksNormalized(k) THEN NormalizeKey(k) ELSE k

ExtractProgramKeys(page) ==
    {FinalNormalize(k) : k \in UNION {StrategyKeys(c) : c \in page.cands}} \ {NoKey}

SetMin(S) == CHOOSE m \in S : \A x \in S : m <= x

\* _keys_and_earliest: the earliest date of a key, else of a heading
KeysAndEarliest(page) ==
    LET ks == ExtractProgramKeys(page)
        dts == {ParseKeyDate(k) : k \in ks} \ {NoDay}
    IN  [keys |-> ks, earliest |-> IF dts # {} THEN SetMin(dts) ELSE page.head]

InRange(k) == ParseKeyDate(k) # NoDay /\ StartDate <= ParseKeyDate(k) /\ ParseKeyDate(k) <= EndDate
KeptKeys(ks) == {k \in ks : InRange(k)}

\* ---- what a listing page can hold ----
MaxListCands == 1       \* most key occurrences on one listing page
NumCandidates == 2      \* candidate urls tried per hop
NumListings == 2        \* listings walked: HOME and one state

Occ(form, dtxt, d, parts, st, trk) ==
    [form |-> form, dtxt |-> dtxt, d |-> d, parts |-> parts, st |-> st, trk |-> trk]

OccU ==
    {Occ("href_enc", "ok", d, 3, "VIC", "Flemington") : d \in {0, HopDays, 2 * HopDays}}
    \cup {Occ("href", "ok", HopDays, 3, "VIC", "Flemington"),
          Occ("href_enc", "ok", HopDays, 3, "VIC", "Cranbourne Trial"),
          Occ("href_enc", "short", 2, 3, "VIC", "Cranbourne Trial"),
          Occ("href_enc", "ok", HopDays, 1, "", ""),
          Occ("quoted", "ok", HopDays, 3, "vic", "Flemington "),
          Occ("quoted", "ok", HopDays, 3, "NZ", "Flemington"),
          Occ("href_enc", "bad", 0, 3, "VIC", "Flemington")}

ListPages ==
    {[cands |-> C, head |-> h] :
        C \in {S \in SUBSET OccU : Cardinality(S) <= MaxListCands},
        h \in {NoDay, HopDays}}
NoListPage == [cands |-> {}, head |-> NoDay - 1]     \* _fetch returned ""

\* _keys_and_earliest of every page a fetch can return
PageInfo == [p \in ListPages \cup {NoListPage} |-> KeysAndEarliest(p)]

\* time.monotonic() > deadline
DeadlinePassed_Never(e) == FALSE
DeadlinePassed(e) == e

\* the walk returns t: discover_meeting_keys adds it and goes to the next listing
WalkReturns(t) ==
    /\ total' = t
    /\ rtotal' = rtotal \cup t
    /\ lpc' = IF lidx < NumListings THEN "start" ELSE "done"
    /\ lidx' = IF lidx < NumListings THEN lidx + 1 ELSE lidx

\* the first fetch of a listing
ListStart ==
    /\ lpc = "start"
    /\ \E p \in ListPages \cup {NoListPage} :
        LET ke == PageInfo[p] IN
        /\ nfetch' = 1
        /\ expired' = FALSE
        /\ lhop' = 0 /\ lci' = 0 /\ stagnant' = 0
        /\ IF p = NoListPage
           THEN /\ WalkReturns({})
                /\ seen' = {} /\ keys0' = {} /\ cursor' = NoDay
           ELSE /\ keys0' = ke.keys
                /\ seen' = {k \in ke.keys : InRange(k)}
                /\ cursor' = ke.earliest
                /\ IF ke.earliest = NoDay
                   THEN WalkReturns(KeptKeys(ke.keys))
                   ELSE /\ total' = KeptKeys(ke.keys)
                        /\ lpc' = "hop"
                        /\ UNCHANGED <<lidx, rtotal>>
    /\ UNCHANGED <<dvars, uvars, bvars, hvars, cvars, jvars>>

\* the top of a hop: the budget and the deadline
ListHop ==
    /\ lpc = "hop"
    /\ IF lhop >= WalkMaxHops \/ DeadlinePassed(expired)
       THEN /\ WalkReturns(total)
            /\ UNCHANGED lci
       ELSE /\ lpc' = "cand" /\ lci' = 1
            /\ UNCHANGED <<total, rtotal, lidx>>
    /\ UNCHANGED <<dvars, uvars, bvars, hvars, cvars, jvars, cursor, stagnant, lhop, expired, nfetch,
                   seen, keys0>>

\* the end of a hop, after the candidates
HopEnd(advanced, cur, tot) ==
    LET stg == IF advanced THEN 0 ELSE stagnant + 1 IN
    /\ stagnant' = stg
    /\ cursor' = cur
    /\ IF (~advanced /\ stg >= MaxStagnantSteps) \/ cur > EndDate
       THEN WalkReturns(tot) /\ UNCHANGED lhop
       ELSE /\ total' = tot /\ lpc' = "hop" /\ lhop' = lhop + 1
            /\ UNCHANGED <<lidx, rtotal>>

\* one candidate url of the hop is fetched; the clock may pass the deadline
\* while it is
ListTry ==
    /\ lpc = "cand"
    /\ \E p \in ListPages \cup {NoListPage},
          late \in (IF expired THEN {TRUE} ELSE BOOLEAN) :
        LET ke == PageInfo[p] IN
        /\ nfetch' = nfetch + 1
        /\ expired' = (expired \/ late)
        /\ IF p = NoListPage
           THEN /\ HopEnd(FALSE, cursor, total)
                /\ UNCHANGED <<lci, seen>>
           ELSE IF ke.earliest = NoDay \/ ke.earliest <= cursor
                THEN /\ UNCHANGED seen
                     /\ IF lci < NumCandidates
                        THEN /\ lci' = lci + 1
                             /\ UNCHANGED <<lpc, lidx, cursor, stagnant, lhop, total, rtotal>>
                        ELSE HopEnd(FALSE, cursor, total) /\ UNCHANGED lci
                ELSE /\ seen' = seen \cup {k \in ke.keys : InRange(k)}
                     /\ HopEnd(TRUE, ke.earliest, total \cup KeptKeys(ke.keys))
                     /\ UNCHANGED lci
    /\ UNCHANGED <<dvars, uvars, bvars, hvars, cvars, jvars, keys0>>

ListingIdle ==
    /\ lpc = "idle" /\ lidx = 0 /\ cursor = NoDay /\ stagnant = 0 /\ lhop = 0 /\ lci = 0
    /\ total = {} /\ expired = FALSE /\ nfetch = 0 /\ seen = {} /\ keys0 = {}
    /\ rtotal = {}

ListingEntry ==
    /\ lpc = "start" /\ lidx = 1 /\ cursor = NoDay /\ stagnant = 0 /\ lhop = 0 /\ lci = 0
    /\ total = {} /\ expired = FALSE /\ nfetch = 0 /\ seen = {} /\ keys0 = {}
    /\ rtotal = {}

(***************************************************************************)
(* The daily job: run_daily (api/daily_job.py) and crawl_next              *)
(* (api/crawl_calendar.py).                                                *)
(***************************************************************************)
\* sorted(keys): "2025Sep20,VIC,..." sorts before "2025Sep20,vic,..."
CrawlOrder == <<K1, K2>>
SortedKeys(S) == SelectSeq(CrawlOrder, LAMBDA k : k \in S)

\* _coerce_result of what harvest_program returns, a list of rows:
\* "if isinstance(ret, list): return (len(ret), 0)"
CoerceResult(rows) == <<Len(rows), 0>>

\* what a call of crawl_next evaluates to: the function prints its totals and
\* ends without a return statement
NoReturn == [kind |-> "unset", saved |-> 0, updated |-> 0]
CrawlNextReturn(s, u) == [kind |-> "none", saved |-> 0, updated |-> 0]
\* "saved, updated = crawl_next(...)": unpacking needs an iterable of two
CanUnpack2(r) == r.kind = "pair"

\* steps 2 to 8 of run_daily, each optional helper inside its own try/except
StepsAfterCrawl(hasmid) ==
    <<"backfill_race_dates", "dedupe_race_program", "backfill_distance", "backfill_types">>
    \o (IF hasmid THEN <<"backfill_meeting_ids">> ELSE <<>>)
    \o <<"cleanup_past_rows", "count_rows">>

\* run_daily calls crawl_next, which calls discover_meeting_keys
JobStart ==
    /\ jpc = "start"
    /\ \E ks \in SUBSET HarvestKeys : jtodo' = SortedKeys(ks)
    /\ jsteps' = <<"crawl_next">>
    /\ jpc' = "crawl"
    /\ UNCHANGED <<dvars, uvars, bvars, hvars, lvars, cvars, jforce, jhasmid, jsaved, jupdated,
                   jfail, jret>>

\* one turn of "for k in sorted(keys)": harvest_program(k, force=force), then
\* _coerce_result of its rows is added to the totals; an exception is
\* recorded in failures and the loop goes on
CrawlKey ==
    /\ jpc = "crawl" /\ jtodo # <<>>
    /\ LET k == Head(jtodo)
       IN  \E fetched \in BOOLEAN :
             IF fetched
             THEN LET rows == HarvestProgram(k, jforce, hclock, upstream[k])
                      su == CoerceResult(rows)
                  IN  /\ hres' = [hres EXCEPT ![k] = rows]
                      /\ hfirst' = [hfirst EXCEPT ![k] =
                                      IF @.set THEN @ ELSE [set |-> TRUE, rows |-> rows]]
                      /\ hforces' = [hforces EXCEPT ![k] = @ \cup {jforce}]
                      /\ hblocks' = [text |-> Clean(upstream[k]),
                                     blocks |-> IterBlocks(Clean(upstream[k]))]
                      /\ hcalls' = [hcalls EXCEPT ![k] = @ + 1]
                      /\ jsaved' = jsaved + su[1]
                      /\ jupdated' = jupdated + su[2]
                      /\ jfail' = jfail
             ELSE /\ hcalls' = [hcalls EXCEPT ![k] = @ + 1]
                  /\ jfail' = jfail \cup {k}
                  /\ UNCHANGED <<hres, hfirst, hforces, hblocks, jsaved, jupdated>>
    /\ hclock' = hclock + 1
    /\ jtodo' = Tail(jtodo)
    /\ UNCHANGED <<dvars, uvars, bvars, lvars, cvars, upstream, page0, rows0, editAt,
                   jpc, jforce, jhasmid, jret, jsteps>>

\* crawl_next prints its totals and returns
CrawlReturn ==
    /\ jpc = "crawl" /\ jtodo = <<>>
    /\ jret' = CrawlNextReturn(jsaved, jupdated)
    /\ jpc' = "crawled"
    /\ UNCHANGED <<dvars, uvars, bvars, hvars, lvars, cvars, jforce, jhasmid, jtodo, jsaved,
                   jupdated, jfail, jsteps>>

\* "saved, updated = crawl_next(...)" and the rest of run_daily
RunDailyRest ==
    /\ jpc = "crawled"
    /\ IF CanUnpack2(jret)
       THEN /\ jsteps' = jsteps \o StepsAfterCrawl(jhasmid)
            /\ jpc' = "done"
       ELSE /\ jsteps' = jsteps
            /\ jpc' = "raised"
    /\ UNCHANGED <<dvars, uvars, bvars, hvars, lvars, cvars, jforce, jhasmid, jtodo, jsaved,
                   jupdated, jfail, jret>>

JobIdle ==
    /\ jpc = "idle" /\ jforce = FALSE /\ jhasmid = FALSE /\ jtodo = <<>>
    /\ jsaved = 0 /\ jupdated = 0 /\ jfail = {} /\ jret = NoReturn /\ jsteps = <<>>

\* the state at the call of run_daily
JobEntry ==
    /\ jpc = "start" /\ jforce \in BOOLEAN /\ jhasmid \in BOOLEAN /\ jtodo = <<>>
    /\ jsaved = 0 /\ jupdated = 0 /\ jfail = {} /\ jret = NoReturn /\ jsteps = <<>>

(***************************************************************************)
(* Specifications: one per component, the other components idle.           *)
(***************************************************************************)
DiscoverInit == DiscoverEntry /\ UpsertIdle /\ BackfillIdle /\ HarvestIdle /\ ListingIdle /\ CanonIdle /\ JobIdle
SpecDiscover == DiscoverInit /\ [][DiscoverNext]_vars

WalkInit == WalkEntry /\ UpsertIdle /\ BackfillIdle /\ HarvestIdle /\ ListingIdle /\ CanonIdle /\ JobIdle
SpecWalk == WalkInit /\ [][WalkNext]_vars

UpsertInit == DiscoverIdle /\ UpsertIdle /\ BackfillIdle /\ HarvestIdle /\ ListingIdle /\ CanonIdle /\ JobIdle
UpsertNext == Upsert
SpecUpsert == UpsertInit /\ [][UpsertNext]_vars

BackfillInit ==
    DiscoverIdle /\ table \in StoredTables /\ WriterIdle /\ BackfillEntry /\ HarvestIdle /\ ListingIdle /\ CanonIdle /\ JobIdle
SpecBackfill == BackfillInit /\ [][BackfillNext]_vars

\* the backfill of one race day
MatchInit ==
    /\ DiscoverIdle /\ table \in MatchTables /\ WriterIdle /\ BackfillEntry
    /\ HarvestIdle /\ ListingIdle /\ CanonIdle /\ JobIdle
SpecMatch == MatchInit /\ [][BackfillNext]_vars

\* harvests of K1 persisted, the upstream page changing in between
PersistInit ==
    /\ DiscoverIdle /\ UpsertIdle /\ BackfillIdle /\ HarvestEntry(HarvestPages)
    /\ ListingIdle /\ CanonIdle /\ JobIdle
PersistNext ==
    \/ SmokeHarvest
    \/ Republish
SpecPersist == PersistInit /\ [][PersistNext]_vars

\* one harvest of K1 from a page that can carry a Listed signal
ClassInit ==
    /\ DiscoverIdle /\ UpsertIdle /\ BackfillIdle /\ HarvestEntry(ClassPages)
    /\ ListingIdle /\ CanonIdle /\ JobIdle
ClassNext == Harvest({K1}, BOOLEAN, 1)
SpecClass == ClassInit /\ [][ClassNext]_vars

\* every page of K1 harvested once, one word changed, harvested again
ParseInit == DiscoverIdle /\ UpsertIdle /\ BackfillIdle /\ HarvestEntry(ProgramPages) /\ ListingIdle /\ CanonIdle /\ JobIdle
ParseNext ==
    \/ Harvest({K1}, {FALSE}, 2)
    \/ EditWord
SpecParse == ParseInit /\ [][ParseNext]_vars

\* repeated harvests of two keys, forced or not, some failing
HarvestInit == DiscoverIdle /\ UpsertIdle /\ BackfillIdle /\ HarvestEntry(HarvestPages) /\ ListingIdle /\ CanonIdle /\ JobIdle
HarvestNext ==
    \/ Harvest(HarvestKeys, BOOLEAN, MaxCalls)
    \/ HarvestFails
SpecHarvest == HarvestInit /\ [][HarvestNext]_vars

\* ra_discover.discover_meeting_keys: every listing walked in turn
ListingInit ==
    DiscoverIdle /\ UpsertIdle /\ BackfillIdle /\ HarvestIdle /\ ListingEntry /\ CanonIdle /\ JobIdle
ListingNext ==
    \/ ListStart
    \/ ListHop
    \/ ListTry
SpecListing == ListingInit /\ [][ListingNext]_vars

\* canonical_track_name applied to a venue name and to its own result
CanonInit ==
    DiscoverIdle /\ UpsertIdle /\ BackfillIdle /\ HarvestIdle /\ ListingIdle /\ CanonEntry /\ JobIdle
CanonNext == Canonicalize
SpecCanon == CanonInit /\ [][CanonNext]_vars

\* harvests of K1 persisted over records the backfill has reconciled
ReconciledTables ==
    {<<StoredRow(1, "2025-09-20", "Flemington", "PF3")>>,
     <<StoredRow(1, "2025-09-20", "Flemington", "PF3"),
       StoredRow(2, "2025-09-20", "Flemington", "PF3")>>}
ReharvestInit ==
    /\ DiscoverIdle /\ table \in ReconciledTables /\ WriterIdle /\ BackfillIdle
    /\ HarvestEntry(HarvestPages) /\ ListingIdle /\ CanonIdle /\ JobIdle
ReharvestNext == SmokeHarvest
SpecReharvest == ReharvestInit /\ [][ReharvestNext]_vars

\* one run of run_daily
JobInit ==
    /\ DiscoverIdle /\ UpsertIdle /\ BackfillIdle /\ HarvestEntry(HarvestPages)
    /\ ListingIdle /\ CanonIdle /\ JobEntry
JobNext == JobStart \/ CrawlKey \/ CrawlReturn \/ RunDailyRest
SpecJob == JobInit /\ [][JobNext]_vars

\* one call of _walk_listing: the last listing
ListWalkInit ==
    /\ DiscoverIdle /\ UpsertIdle /\ BackfillIdle /\ HarvestIdle /\ CanonIdle /\ JobIdle
    /\ lpc = "start" /\ lidx = NumListings /\ cursor = NoDay /\ stagnant = 0 /\ lhop = 0
    /\ lci = 0 /\ total = {} /\ expired = FALSE /\ nfetch = 0 /\ seen = {}
    /\ keys0 = {} /\ rtotal = {}
SpecListWalk == ListWalkInit /\ [][ListingNext]_vars

(***************************************************************************)
(* Claims about discovery.                                                 *)
(***************************************************************************)
\* Steps a walk can still take: it falls with every step of the walker.
WalkRank ==
    LET W == MaxCands + 3
        left == (MaxHops(days) - hop + 1) * W
    IN  CASE pc = "walk" -> (MaxHops(days) + 2) * W
          [] pc = "hop" -> left
          [] pc = "reuse" -> left - 1
          [] pc = "discover" -> left - 1 - ci
          [] OTHER -> 0

\* C1: the walker cannot loop: it never starts more than max_hops hops, every
\* step it takes brings it nearer to its return, and a hop that finds the page's
\* signature equal to the previous hop's (as it is for a byte-identical page)
\* returns at once.
C1_WalkTerminates ==
    /\ [](hop <= MaxHops(days) /\ WalkRank >= 0)
    /\ [][WalkRank' < WalkRank]_vars
    /\ [][(pc = "hop" /\ hop < MaxHops(days) /\ Hash(html) = prev_sig)
            => (pc' = "returned" /\ stop' = "unchanged")]_vars

C1_Witness == pc = "returned" /\ stop = "unchanged"

\* C2: no failed fetch makes discover_meeting_keys raise.
C2_DiscoverNeverRaises == pc # "raised"

\* C10: the prober runs exactly when the latest date the walks found (the window
\* start when they found none) is more than 3 days before the window end, and
\* every key it probes is dated after that latest date and not after the window end.
C10_ProberOnlyInTail ==
    LET lo == Lo(include_past)
        hi == Hi(days)
        covered == IF KeyDates(seeds) = {} THEN lo ELSE SetMax(KeyDates(seeds))
    IN  /\ pc \in {"probe", "done"} => (bf <=> covered + 3 < hi)
        /\ pc \notin {"probe", "done"} => ~bf /\ probed = {}
        /\ \A k \in probed : bf /\ covered + 1 <= k.d /\ k.d <= hi

C10_Witness == pc = "done" /\ bf /\ seeds # {} /\ probed # {} /\ found # {}



(***************************************************************************)
(* Claims about the race_program writer.                                   *)
(***************************************************************************)
\* C3: the table never holds two rows of one identity (date, state, track,
\* race_no), and a call that repeats the batch of the call before it leaves every
\* row as it was and reports no inserted row.
C3_UpsertIdempotent ==
    /\ \A i, j \in 1..Len(table) : SameIdentity(table[i], table[j]) => i = j
    /\ repeat => (table = prevTable /\ lastResult[1] = 0)

C3_Witness ==
    /\ repeat /\ Len(lastBatch) = MaxBatch /\ Len(table) >= 2
    /\ lastResult[2] >= 2
    /\ \E i \in 1..Len(lastBatch) : Malformed(PrepParams(lastBatch[i])) = FALSE


(***************************************************************************)
(* Claims about the provider-id backfill.                                  *)
(***************************************************************************)
\* C4: a local venue whose key is shared by two or more provider venues of the
\* payload, none of them the local name itself, is given no provider id.
C4_TiesGetNoProviderId ==
    \A w \in written : Cardinality(w.rivals) >= 2 => w.trk \in w.rivals

\* C5: when the pass is over, every candidate date whose provider fetch did not
\* fail has been matched, and the table holds the provider ids written for it.
C5_FetchFailureAbortsOnlyThatDate ==
    bpc \in {"done", "raised"} =>
        \A c \in bcands :
            c.d \notin failed =>
                /\ c.d \in processed
                /\ \A w \in written :
                     (w.d = c.d /\ w.st = c.st /\ w.trk = c.trk) =>
                        \A i \in MeetingRows(table, c) : table[i].meeting_id = w.mid


(***************************************************************************)
(* Claims about the harvester.                                             *)
(***************************************************************************)
InHeader(text, q) == \E i \in 1..Len(Heads(text)) : Heads(text)[i].start <= q /\ q <= Heads(text)[i].end
BlocksAt(q) == {i \in 1..Len(hblocks.blocks) : hblocks.blocks[i].from <= q /\ q <= hblocks.blocks[i].to}

\* C6 (as stated): N header matches give N blocks, no two blocks overlap, and
\* every position of the text outside the header matches lies in exactly one block.
C6_BlocksCoverAllText ==
    LET text == hblocks.text
        bl == hblocks.blocks
    IN  /\ Len(bl) = Len(Heads(text))
        /\ \A i, j \in 1..Len(bl) : i < j => bl[i].to < bl[j].from
        /\ \A q \in 1..Len(text) : ~InHeader(text, q) => Cardinality(BlocksAt(q)) = 1

\* C6 (amended): N header matches give N blocks, each the text at its positions,
\* no two blocks overlap, and every position that holds no blank, lies behind the
\* first header match and outside the header matches lies in exactly one block.
C6_BlocksCoverTextAfterFirstHeader ==
    LET text == hblocks.text
        bl == hblocks.blocks
    IN  /\ Len(bl) = Len(Heads(text))
        /\ \A i \in 1..Len(bl) : bl[i].block = SubSeq(text, bl[i].from, bl[i].to)
        /\ \A i, j \in 1..Len(bl) : i < j => bl[i].to < bl[j].from
        /\ \A q \in 1..Len(text) :
             (~InHeader(text, q) /\ text[q] # " " /\ Heads(text) # <<>>
                /\ q > Heads(text)[1].start) => Cardinality(BlocksAt(q)) = 1

C6_Witness ==
    /\ Len(hblocks.blocks) = 2
    /\ hblocks.blocks[1].block # <<>>
    /\ hblocks.blocks[1].race_no # hblocks.blocks[2].race_no

\* C7: no two records of one harvest share a race_no.
C7_RaceNoUnique ==
    \A k \in HarvestKeys :
        \A i, j \in 1..Len(hres[k]) : hres[k][i].race_no = hres[k][j].race_no => i = j

\* C8: while the page of a key is unchanged, every harvest of the key returns
\* the records its first harvest returned.
C8_HarvestDeterministic ==
    \A k \in HarvestKeys : hfirst[k].set => hres[k] = hfirst[k].rows

C8_Witness ==
    /\ hcalls[K1] >= 2 /\ hforces[K1] = BOOLEAN /\ hres[K1] # <<>>
    /\ hforces[K2] # {}

\* the race whose header or block holds position q of the page (0: none)
OwnerOf(h, q) == Cardinality({i \in 1..Len(Heads(h)) : Heads(h)[i].start <= q})

\* C9: after a change of one word of the page, the record of every race but the
\* one whose header or block holds the word is what it was before the change.
C9_NoCrossRaceLeakage ==
    (editAt # 0 /\ hcalls[K1] = 2) =>
        /\ Len(hres[K1]) = Len(rows0)
        /\ \A i \in 1..Len(rows0) : i # OwnerOf(page0, editAt) => hres[K1][i] = rows0[i]

(***************************************************************************)
(* Claims about the listing walker of api/ra_discover.py.                  *)
(***************************************************************************)
\* C13: when the deadline has passed at the top of a hop, the walker fetches
\* nothing more and returns, without raising, exactly the keys it has
\* accumulated, which are the in-window keys of every page adopted so far.
C13_DeadlineStopsWalk ==
    [][(lpc = "hop" /\ expired) =>
          /\ lpc' \in {"start", "done"}
          /\ nfetch' = nfetch
          /\ total' = total
          /\ total' = seen]_vars

\* a walk that adopted a page, then met the deadline and returned its keys
C13_Witness ==
    /\ lpc = "done" /\ expired
    /\ lhop >= 1 /\ stagnant = 0 /\ cursor <= EndDate
    /\ Cardinality(total) >= 2

\* C11: every key discover_meeting_keys returns is dated inside the window
\* [start_date, end_date] and names no trial or jump-out venue.
C11_ReturnedKeysInWindowNotTrial ==
    lpc = "done" => \A k \in rtotal : InRange(k) /\ ~ExcludeTags(k.trk)

\* C12: every key _extract_program_keys returns passes the predicate of
\* _normalize_key: known state, date that parses, venue non-empty and no trial.
C12_ExtractedKeysAreValid ==
    \A k \in keys0 :
        /\ Upper(k.st) \in VALID_STATES
        /\ ParseKeyDate(k) # NoDay
        /\ k.trk # ""
        /\ ~ExcludeTags(k.trk)

(***************************************************************************)
(* Claims about venue matching, api/backfill_meeting_ids.py.               *)
(***************************************************************************)
\* C14: canonical_track_name is idempotent: applied to its own result for a
\* name built from sponsor tokens, course-type tokens, abbreviation prefixes
\* and ordinary words, it returns that result unchanged.
C14_CanonicalIdempotent == ccalls = 2 => cname = cprev

\* the local venues of the date just processed, when ids were written
JustMatched ==
    IF bpc \in {"dates", "done"} /\ processed # {} /\ ~dry_run /\ ~PfMapEmpty(bpay)
    THEN {c \in bcands : c.d = SetMax(processed)}
    ELSE {}

LowerName(name) == [i \in 1..Len(Tokens(name)) |-> Lower(Tokens(name)[i])]

\* the provider entries of the last payload in the venue's region whose raw
\* name equals the venue's raw name, ignoring case
ExactEntries(c) ==
    {i \in 1..Len(bpay) :
        /\ PfUsable(bpay[i])
        /\ Upper(OrEmpty(bpay[i].state)) = c.st
        /\ LowerName(OrEmpty(bpay[i].name)) = LowerName(c.trk)}

\* the provider entries of the last payload in the venue's region whose
\* canonical name equals the venue's canonical name
CanonEntries(c) ==
    {i \in 1..Len(bpay) :
        /\ PfUsable(bpay[i])
        /\ Upper(OrEmpty(bpay[i].state)) = c.st
        /\ CanonicalTrackName(Tokens(OrEmpty(bpay[i].name))) = CanonicalTrackName(Tokens(c.trk))}

IdsWritten(c) == {w.mid : w \in {x \in written : x.d = c.d /\ x.st = c.st /\ x.trk = c.trk}}

\* C15: a provider entry of the venue's region with the same raw name
\* (ignoring case) gives the venue its id, even when another entry of the
\* region has the same canonical name.
C15_ExactNameWins ==
    \A c \in JustMatched :
        ExactEntries(c) # {} => IdsWritten(c) \subseteq {bpay[i].meetingId : i \in ExactEntries(c)}

StoredRace(n) ==
    {j \in 1..Len(table) :
        /\ table[j].date = "2025-09-20" /\ table[j].state = "VIC"
        /\ table[j].track = "Flemington" /\ table[j].race_no = n}

\* C17: a harvested record has the race number and the distance of its
\* header, and the parsed distance is what the persisted record holds in
\* distance_m.
C17_ParsedDistanceIsPersisted ==
    \A i \in 1..Len(hres[K1]) :
        /\ StoredRace(hres[K1][i].race_no) # {}
        /\ \A j \in StoredRace(hres[K1][i].race_no) :
              table[j].distance_m = hres[K1][i].distance

\* C18: when the block of a race carries a Group or Listed signal, the class
\* of the harvested record is that Group or Listed value, whatever benchmark
\* or class text the title, the block or the rest of the page holds.
C18_GroupListedWins ==
    \A i \in 1..Len(hres[K1]) :
        /\ Has(hblocks.blocks[i].block, "Group 1") => hres[K1][i].class = "G1"
        /\ (Has(hblocks.blocks[i].block, "Listed") /\ ~Has(hblocks.blocks[i].block, "Group 1"))
              => hres[K1][i].class = "Listed"

(***************************************************************************)
(* Claims about the writer, api/crawler.py.                                *)
(***************************************************************************)
\* the records of the last batch that have date, state, track and race_no
WellFormed == {i \in 1..Len(lastBatch) : ~Malformed(PrepParams(lastBatch[i]))}

\* C19: a record without date, state, track or race_no is skipped and does
\* not abort the batch: every other record of the batch is stored, each
\* counted as saved or updated, and every stored row is either as it was
\* before the batch or the parameters of a well-formed record of the batch.
C19_MalformedRowSkipped ==
    /\ \A i \in WellFormed :
          \E j \in 1..Len(table) : SameIdentity(table[j], PrepParams(lastBatch[i]))
    /\ lastResult[1] + lastResult[2] >= Cardinality(WellFormed)
    /\ Len(table) >= Len(prevTable)
    /\ \A j \in 1..Len(table) :
          \/ j <= Len(prevTable) /\ table[j] = prevTable[j]
          \/ \E i \in WellFormed : table[j] = PrepParams(lastBatch[i])

\* a batch whose first record is malformed and whose second was inserted
C19_Witness ==
    /\ Len(lastBatch) = 2
    /\ 1 \notin WellFormed /\ 2 \in WellFormed
    /\ lastResult = <<1, 0>>
    /\ Len(table) = Len(prevTable) + 1
    /\ table[Len(table)] = PrepParams(lastBatch[2])

\* the race numbers of the last harvest of K1
FreshRaces == {hres[K1][i].race_no : i \in 1..Len(hres[K1])}

\* C20: once a re-harvest of K1 has been persisted, the stored records of
\* the meeting are exactly the fresh ones: every fresh race is stored with
\* its fresh title, and no stored race of the meeting is absent from the
\* fresh harvest.
C20_ReharvestReplacesSet ==
    hcalls[K1] >= 1 =>
        /\ \A i \in 1..Len(hres[K1]) :
              \E j \in StoredRace(hres[K1][i].race_no) :
                  table[j].description = JoinToks(hres[K1][i].description)
        /\ \A j \in 1..Len(table) : table[j].race_no \in FreshRaces

(***************************************************************************)
(* Claims about the calendar walker's page adoption and the prober.        *)
(***************************************************************************)
\* C21: the walker replaces its current page only by a page that has keys
\* and whose furthest key date is strictly later than the current page's
\* (a current page without dated keys counts as date.min); a page with no
\* keys, or with an equal or earlier furthest date, is never adopted.
C21_AdoptedPagesStrictlyAdvance ==
    [][/\ (pc = "hop" /\ pc' \in {"reuse", "discover"}) => html' = html
       /\ (pc \in {"reuse", "discover"} /\ pc' # "returned" /\ html' # html)
          => /\ HasMaxKeyDate(ExtractKeysAny(html'))
             /\ MaxKeyDate(ExtractKeysAny(html')) > OldMx(ExtractKeysAny(html))
             /\ pc' = "hop" /\ hop' = hop + 1]_vars

\* a walk that adopted two pages in a row, the first of them with dated keys
C21_Witness ==
    /\ pc = "hop" /\ hop = 2 /\ html # NoPage
    /\ HasMaxKeyDate(ExtractKeysAny(html))
    /\ MaxKeyDate(ExtractKeysAny(html)) > DateMin + 1


\* C22: the action that advanced the walk is remembered and is the first
\* action applied on every later hop that applies one; the candidates of the
\* page are tried on that hop only after it failed to strictly advance, and
\* by then it has been forgotten.
C22_KnownGoodActionFirst ==
    /\ [](pc = "reuse" => advance # NoAction)
    /\ [](pc = "discover" => advance = NoAction)
    /\ [][(pc = "discover" /\ pc' = "hop")
            => /\ ci \in 1..Len(CandidateActions(html))
               /\ advance' = CandidateActions(html)[ci]]_vars
    /\ [][(pc = "hop" /\ advance # NoAction /\ pc' # "returned")
            => (pc' = "reuse" /\ advance' = advance)]_vars
    /\ [][(pc = "reuse" /\ pc' = "hop")
            => /\ advance' = advance
               /\ MaxKeyDate(ExtractKeysAny(html')) > OldMx(ExtractKeysAny(html))]_vars
    /\ [][(pc = "reuse" /\ pc' = "discover")
            => (advance' = NoAction /\ html' = html /\ hop' = hop)]_vars

\* re-discovery on a later hop: the known-good action advanced at least one
\* hop, then failed and was forgotten
C22_Witness == pc = "discover" /\ hop >= 1 /\ advance = NoAction /\ ci = 2


\* C23: the prober never fetches a key that is already known or whose venue
\* is a trial/jump-out name; a key enters its result only in the step that
\* probed it, and only when that probe's response was received, was ok, held
\* a "Race 1" marker and no trial wording; a probe that fails or raises adds
\* nothing, and the loop goes on to the next venue or date, so that at the
\* end every unknown non-trial combination of the probed dates was fetched.
C23_ProberFetchesAndKeeps ==
    /\ [](\A k \in probed : k \notin seeds /\ ~IsTrialish(k.trk))
    /\ [](found \subseteq probed)
    /\ [][found' # found
            => /\ found' \ found = probed' \ probed
               /\ Cardinality(probed' \ probed) = 1
               /\ ~presp'.raised /\ presp'.ok /\ presp'.race1 /\ ~presp'.trial]_vars
    /\ [][(probed' # probed /\ (presp'.raised \/ ~presp'.ok \/ ~presp'.race1 \/ presp'.trial))
            => /\ found' = found
               /\ pc' = "probe"
               /\ IF Cardinality(ptodo) > 1
                  THEN pd' = pd /\ ptodo' \subseteq ptodo
                       /\ Cardinality(ptodo') = Cardinality(ptodo) - 1
                  ELSE pd' = pd + 1 /\ ptodo' = Combos(Inventory(seeds, dbTracks))]_vars
    /\ [](pc = "done" /\ bf
            => \A d \in ProbeStart(seeds, Lo(include_past))..Hi(days) :
                 \A c \in Combos(Inventory(seeds, dbTracks)) :
                    (~IsTrialish(c[2]) /\ Key(d, c[1], c[2]) \notin seeds)
                       => Key(d, c[1], c[2]) \in probed)

\* a finished pass in which a probe failed and a probe of a later date was kept,
\* with a trial venue in the inventory
C23_Witness ==
    /\ pc = "done" /\ bf
    /\ \E st \in StateSet : \E t \in Inventory(seeds, dbTracks)[st] : IsTrialish(t)
    /\ \E k \in probed \ found : \E k2 \in found : k.d < k2.d


(***************************************************************************)
(* Claims about the daily job.                                             *)
(***************************************************************************)
\* the steps of the run so far hold backfill_meeting_ids after crawl_next
BackfillAfterCrawl ==
    \E i, j \in 1..Len(jsteps) :
        i < j /\ jsteps[i] = "crawl_next" /\ jsteps[j] = "backfill_meeting_ids"

\* C24: a run of run_daily whose crawl step has returned does not end without
\* having run backfill_meeting_ids after the crawl.
C24_BackfillFollowsCrawl ==
    (jret # NoReturn /\ jpc \in {"done", "raised"}) => BackfillAfterCrawl

\* C25: when crawl_next returns, its 'saved' total is the number of rows the
\* crawl inserted into race_program and its 'updated' total the number it
\* updated.
C25_TotalsAreRowsWritten ==
    jret # NoReturn => (jsaved = Len(table) /\ jupdated = 0)


(***************************************************************************)
(* Claims about what the backfill leaves alone and when it fetches.        *)
(***************************************************************************)
\* C26: the backfill leaves every row alone whose meeting_id was neither NULL
\* nor blank: no step changes the meeting_id of such a row.
C26_NonBlankIdsKept ==
    [][/\ Len(table') = Len(table)
       /\ \A i \in 1..Len(table) :
             ~BlankMeetingId(table[i])
                => table'[i].meeting_id = table[i].meeting_id]_vars

\* the transaction of the pass holds updates that are not committed yet
WritesPending == bpc = "dates" /\ txn # table

\* C27: the provider is not fetched while the write transaction is open: no
\* date's meetingslist request is sent while the transaction holds
\* uncommitted updates.
C27_NoFetchInsideTransaction ==
    [][(processed' # processed \/ failed' # failed) => ~WritesPending]_vars


\* C30: persisting a harvest keeps the provider id of every stored record:
\* no step changes a meeting_id that is not NULL.
C30_UpsertKeepsMeetingId ==
    [][\A i \in 1..Len(table) :
          table[i].meeting_id # None
             => (i <= Len(table') /\ table'[i].meeting_id = table[i].meeting_id)]_vars


(***************************************************************************)
(* Claims about the hop budget and the probed window.                      *)
(***************************************************************************)
\* C28: when _walk_calendar returns, the in-window keys of the page it holds,
\* the last page it adopted, are in the returned set, as are those of the
\* pages before it (they are never taken out of the set).
C28_AdoptedPagesContribute ==
    /\ [][(pc \in {"hop", "reuse", "discover"} /\ pc' = "returned")
            => Kept(ExtractKeysAny(html), Lo(include_past), Hi(days)) \subseteq keys']_vars
    /\ [][(pc \in {"hop", "reuse", "discover"}) => (keys \subseteq keys')]_vars


\* C29: when the listing walks returned no key and the prober ran, the
\* finished pass has probed every date of the window, the first one included,
\* for every region and every known venue of the region that is not a trial
\* name.
C29_EmptySeedsProbeWholeWindow ==
    (pc = "done" /\ seeds = {} /\ bf)
        => \A d \in Lo(include_past)..Hi(days) :
             \A c \in Combos(Inventory(seeds, dbTracks)) :
                ~IsTrialish(c[2]) => Key(d, c[1], c[2]) \in probed


=============================================================================
